---- MODULE Spec2Model ----
(***************************************************************************)
(* A model of honesty/deps.py: the requirement parser, the version         *)
(* selector (_find_compatible_version) and the dependency walker           *)
(* (DepWalker.walk).                                                       *)
(*                                                                         *)
(* Text is modelled as text: every requirement line, version and marker    *)
(* is a string, read character by character the way the regular            *)
(* expressions of the source and of the `packaging` library read it.       *)
(* An Optional value is a tuple: <<>> is None and <<x>> is x.              *)
(*                                                                         *)
(* Of `packaging` (21.3) the model has the PEP 440 versions with release   *)
(* numbers and a, b, rc pre-release segments, and the specifier operators  *)
(* ==, !=, <=, >=, <, >, ~=.  It has no legacy versions or specifiers (a   *)
(* bare "==" without operand, an operand that is no PEP 440 version), no   *)
(* "===", no post, dev, epoch or local segments: the inputs drawn stay     *)
(* within what is modelled.                                                *)
(***************************************************************************)
EXTENDS Integers, Sequences, FiniteSets, TLC

VARIABLES
    \* DepWalker: the inputs of one walk
    starting_package,   \* DepWalker.__init__(starting_package, ...)
    python_version,     \* DepWalker.__init__(..., python_version), text
    include_extras,     \* walk(include_extras)
    \* DepWalker: the state of the walk
    heap,               \* the DepNode objects, in creation order
    nodes,              \* self.nodes: key -> index into heap
    queue,              \* self.queue: [parent, item]
    root,               \* self.root: Optional index into heap
    status,             \* "running" | "returned" | "raised"
    error,              \* the exception that left walk(), when raised
    fetched,            \* per heap index: calls of _fetch_single_deps
    lookups,            \* calls of parse_index so far
    walks,              \* calls of walk() on this walker so far
    \* _find_compatible_version called on its own
    selPackage,         \* package
    selSpec,            \* the constraint text the SpecifierSet is built from
    selPython,          \* python_version, text
    selCalls,           \* results of the calls made so far
    \* SeekableHttpFile
    http,               \* the object, the resource behind its url, the calls
    \* a function of the module called on its own
    call                \* the function, its argument, what it gave

walkVars == <<starting_package, python_version, include_extras, heap, nodes,
              queue, root, status, error, fetched, lookups, walks>>
selVars == <<selPackage, selSpec, selPython, selCalls>>
vars == <<walkVars, selVars, http, call>>

None == <<>>
Some(x) == <<x>>

\* No SeekableHttpFile is constructed
HttpIdle == http = [phase |-> "idle"]

\* No function is called on its own
CallIdle == call = [fn |-> "", arg |-> "", done |-> FALSE, ret |-> None]

\* A local name: `With(e, LAMBDA x : body)` is body with x bound to e.
With(x, F(_)) == F(x)

-----------------------------------------------------------------------------
(* Characters and strings *)

\* s[i-1:j] of Python: the characters i..j of s that exist
Sub(s, i, j) ==
    SubSeq(s, IF i < 1 THEN 1 ELSE i, IF j > Len(s) THEN Len(s) ELSE j)

Ch(s, i) == Sub(s, i, i)

\* The characters the model's texts are written in, in ASCII order.
Alphabet ==
    "\t\n !\"$'()*,-.0123456789:;<=>ABCDEFGHIJKLMNOPQRSTUVWXYZ[\\]_"
        \o "abcdefghijklmnopqrstuvwxyz~"

\* ord(c), up to an order-preserving renumbering
Code(c) == CHOOSE i \in 1..Len(Alphabet) : SubSeq(Alphabet, i, i) = c

Digits == {"0", "1", "2", "3", "4", "5", "6", "7", "8", "9"}

Letters == {"a", "b", "c", "d", "e", "f", "g", "h", "i", "j", "k", "l", "m",
            "n", "o", "p", "q", "r", "s", "t", "u", "v", "w", "x", "y", "z"}

IsDigit(c) == c \in Digits

\* \w of the re module
IsWord(c) == c \in Letters \cup Digits \cup {"_"}

\* \s of the re module, and what str.strip() removes
IsSpace(c) == c \in {" ", "\t", "\n"}

DigitVal(c) == CHOOSE d \in 0..9 : SubSeq("0123456789", d + 1, d + 1) = c

RECURSIVE LStrip(_)
LStrip(s) == IF s # "" /\ IsSpace(Ch(s, 1)) THEN LStrip(Tail(s)) ELSE s

RECURSIVE RStrip(_)
RStrip(s) ==
    IF s # "" /\ IsSpace(Ch(s, Len(s)))
    THEN RStrip(Sub(s, 1, Len(s) - 1))
    ELSE s

\* str.strip()
Strip(s) == RStrip(LStrip(s))

\* The length of the longest prefix of s, from position i, whose characters
\* all satisfy P: a greedy character-class repetition.
RECURSIVE Span(_, _, _)
Span(P(_), s, i) ==
    IF i <= Len(s) /\ P(Ch(s, i)) THEN 1 + Span(P, s, i + 1) ELSE 0

\* sub in s
RECURSIVE Contains(_, _)
Contains(s, sub) ==
    IF Len(sub) > Len(s) THEN FALSE
    ELSE IF Sub(s, 1, Len(sub)) = sub THEN TRUE
    ELSE Contains(Tail(s), sub)

\* s.split(sep) for a one-character separator
RECURSIVE Split(_, _)
Split(s, sep) ==
    With(Span(LAMBDA c : c # sep, s, 1), LAMBDA n :
        IF n = Len(s) THEN <<s>>
        ELSE <<Sub(s, 1, n)>> \o Split(Sub(s, n + 2, Len(s)), sep))

\* sep.join(parts)
RECURSIVE Join(_, _)
Join(parts, sep) ==
    IF parts = <<>> THEN ""
    ELSE IF Len(parts) = 1 THEN parts[1]
    ELSE parts[1] \o sep \o Join(Tail(parts), sep)

\* s < t for str: character by character, a proper prefix first
RECURSIVE StrLess(_, _)
StrLess(s, t) ==
    IF t = "" THEN FALSE
    ELSE IF s = "" THEN TRUE
    ELSE IF Head(s) = Head(t) THEN StrLess(Tail(s), Tail(t))
    ELSE Code(Ch(s, 1)) < Code(Ch(t, 1))

\* int(s) for a string of digits
RECURSIVE ToInt(_)
ToInt(s) ==
    IF s = "" THEN 0
    ELSE 10 * ToInt(Sub(s, 1, Len(s) - 1)) + DigitVal(Ch(s, Len(s)))

\* sorted(S) for a set of strings
RECURSIVE SortedStrs(_)
SortedStrs(S) ==
    IF S = {} THEN <<>>
    ELSE With(CHOOSE x \in S : \A y \in S : ~StrLess(y, x), LAMBDA m :
            <<m>> \o SortedStrs(S \ {m}))

RECURSIVE SeqToSet(_)
SeqToSet(q) == IF q = <<>> THEN {} ELSE {Head(q)} \cup SeqToSet(Tail(q))

-----------------------------------------------------------------------------
(* Exceptions: a call either returns a value or raises.  `type` is the    *)
(* Python class, `what` the message that tells two raises of one class    *)
(* apart.                                                                  *)

Raise(type, what) == [ok |-> FALSE, exc |-> [type |-> type, what |-> what]]

-----------------------------------------------------------------------------
(* packaging.version.Version, for versions written N(.N)*[(a|b|rc)N].     *)
(* Any other text is an invalid version.                                   *)

\* The release segment [0-9]+(\.[0-9]+)* of s from position i.
RECURSIVE ParseRelease(_, _)
ParseRelease(s, i) ==
    With(i + Span(IsDigit, s, i), LAMBDA j :
        IF j = i THEN [ok |-> FALSE, nums |-> <<>>, next |-> i]
        ELSE IF j < Len(s) /\ Ch(s, j) = "." /\ IsDigit(Ch(s, j + 1))
        THEN With(ParseRelease(s, j + 1), LAMBDA rest :
                [ok |-> TRUE,
                 nums |-> <<ToInt(Sub(s, i, j - 1))>> \o rest.nums,
                 next |-> rest.next])
        ELSE [ok |-> TRUE, nums |-> <<ToInt(Sub(s, i, j - 1))>>, next |-> j])

\* The rank of a pre-release letter: a < b < rc.
PreRank(l) == CASE l = "a" -> 1 [] l = "b" -> 2 [] l = "rc" -> 3 [] OTHER -> 0

\* _cmpkey: the release without its trailing zeros
RECURSIVE StripZeros(_)
StripZeros(r) ==
    IF r # <<>> /\ r[Len(r)] = 0 THEN StripZeros(Sub(r, 1, Len(r) - 1)) ELSE r

\* A Version: the release as written, whether it is a pre-release, and the
\* two parts of its _key: the release without trailing zeros, and the
\* pre-release tag, <<4, 0>> for a final release, which sorts after every
\* pre-release of its release.
MakeVersion(ok, release, pre, l, n) ==
    [ok |-> ok, release |-> release, pre |-> pre,
     key |-> StripZeros(release),
     prekey |-> IF pre THEN <<l, n>> ELSE <<4, 0>>]

\* Version(text)
Version(text) ==
    With(Strip(text), LAMBDA s :
    With(ParseRelease(s, 1), LAMBDA r :
    With(Sub(s, r.next, Len(s)), LAMBDA rest :
    With(IF Sub(rest, 1, 2) = "rc" THEN 2
         ELSE IF Sub(rest, 1, 1) \in {"a", "b"} THEN 1 ELSE 0, LAMBDA ll :
        IF r.ok /\ rest = "" THEN MakeVersion(TRUE, r.nums, FALSE, 0, 0)
        ELSE IF /\ r.ok
                /\ ll > 0
                /\ Span(IsDigit, rest, ll + 1) = Len(rest) - ll
        THEN MakeVersion(TRUE, r.nums, TRUE, PreRank(Sub(rest, 1, ll)),
                         ToInt(Sub(rest, ll + 1, Len(rest))))
        ELSE MakeVersion(FALSE, <<>>, FALSE, 0, 0)))))

\* Tuple comparison of two sequences of numbers.
RECURSIVE SeqLess(_, _)
SeqLess(a, b) ==
    IF b = <<>> THEN FALSE
    ELSE IF a = <<>> THEN TRUE
    ELSE IF a[1] = b[1] THEN SeqLess(Tail(a), Tail(b))
    ELSE a[1] < b[1]

\* Version.__lt__: the _key tuples compared
VLess(v, w) ==
    IF v.key # w.key THEN SeqLess(v.key, w.key) ELSE SeqLess(v.prekey, w.prekey)

\* Version.__eq__
VEq(v, w) == v.key = w.key /\ v.prekey = w.prekey

-----------------------------------------------------------------------------
(* packaging.specifiers.Specifier and SpecifierSet.  A clause is kept as   *)
(* its operator, its version as written, and that version parsed.          *)

Operators2 == {"~=", "==", "!=", "<=", ">="}
Operators1 == {"<", ">"}

\* The operator a stripped clause text starts with, or ""
OperatorOf(s) ==
    IF Sub(s, 1, 2) \in Operators2 THEN Sub(s, 1, 2)
    ELSE IF Sub(s, 1, 1) \in Operators1 THEN Sub(s, 1, 1)
    ELSE ""

\* Specifier(text): [ok, op, version, v]
Specifier(text) ==
    With(Strip(text), LAMBDA s :
    With(OperatorOf(s), LAMBDA op :
    With(Strip(Sub(s, Len(op) + 1, Len(s))), LAMBDA ver :
    With(Version(ver), LAMBDA v :
        IF op = "" \/ ~v.ok \/ (op = "~=" /\ Len(v.release) < 2)
        THEN [ok |-> FALSE, op |-> "", version |-> "", v |-> v]
        ELSE [ok |-> TRUE, op |-> op, version |-> ver, v |-> v]))))

\* Specifier._canonical_spec: what makes two clauses one member of the set
CanonicalSpec(sp) == <<sp.op, sp.v.key, sp.v.prekey>>

\* The loop of SpecifierSet.__init__ over the comma-separated parts: acc
\* holds the clauses parsed so far, the first of two equal clauses kept.
RECURSIVE ParseSpecifiers(_, _)
ParseSpecifiers(parts, acc) ==
    IF parts = <<>> THEN [ok |-> TRUE, specs |-> SeqToSet(acc)]
    ELSE IF Strip(Head(parts)) = "" THEN ParseSpecifiers(Tail(parts), acc)
    ELSE With(Specifier(Head(parts)), LAMBDA p :
            IF ~p.ok THEN Raise("InvalidSpecifier", "Invalid specifier")
            ELSE ParseSpecifiers(Tail(parts),
                    IF \E i \in 1..Len(acc) :
                            CanonicalSpec(acc[i]) = CanonicalSpec(p)
                    THEN acc
                    ELSE Append(acc, [op |-> p.op, version |-> p.version,
                                      v |-> p.v])))

\* SpecifierSet(text): [ok, specs] or InvalidSpecifier; specs is a frozenset
SpecifierSet(text) == ParseSpecifiers(Split(text, ","), <<>>)

\* str(Specifier)
SpecStr(sp) == sp.op \o sp.version

\* str(SpecifierSet): the clauses sorted as strings
SpecifierSetStr(specs) == Join(SortedStrs({SpecStr(sp) : sp \in specs}), ",")

\* Specifier.prereleases: the clause names a pre-release operand
SpecPrereleases(sp) == sp.op \in {"==", ">=", "<=", "~="} /\ sp.v.pre

\* SpecifierSet.prereleases: None without clauses
SetPrereleases(specs) ==
    IF specs = {} THEN None ELSE Some(\E sp \in specs : SpecPrereleases(sp))

\* _version_split(str(v)): the release numbers, a pre-release tag counting
\* as one more component (written -1)
VersionSplit(v) == IF v.pre THEN v.release \o <<-1>> ELSE v.release

RECURSIVE PadZeros(_, _)
PadZeros(r, n) == IF Len(r) >= n THEN r ELSE PadZeros(r \o <<0>>, n)

\* _compare_equal with a ".*" operand: prefix is the operand's release
PrefixMatch(v, prefix) ==
    With(Sub(VersionSplit(v), 1, Len(prefix)), LAMBDA shortened :
        PadZeros(SelectSeq(shortened, LAMBDA x : x >= 0), Len(prefix))
            \o SelectSeq(shortened, LAMBDA x : x < 0) = prefix)

\* Specifier._get_operator(op)(prospective, spec); lt is v < w, gt is w < v
CompareWith(op, v, w, lt, gt) ==
    CASE op = "==" -> VEq(v, w)
      [] op = "!=" -> ~VEq(v, w)
      [] op = "<=" -> ~gt
      [] op = ">=" -> ~lt
      [] op = "<" -> lt /\ ~(~w.pre /\ v.pre /\ v.key = w.key)
      [] op = ">" -> gt
      [] op = "~=" -> ~lt /\ PrefixMatch(v, Sub(w.release, 1, Len(w.release) - 1))
      [] OTHER -> FALSE

Compare(op, v, w) == CompareWith(op, v, w, VLess(v, w), VLess(w, v))

\* Specifier.contains(item, prereleases): item is a parsed version,
\* prereleases is Optional
SpecContains(sp, item, prereleases) ==
    IF item.pre /\ ~(IF prereleases = None THEN SpecPrereleases(sp)
                     ELSE prereleases[1])
    THEN FALSE
    ELSE Compare(sp.op, item, sp.v)

\* SpecifierSet.contains(item)
SetContains(specs, item) ==
    With(Version(item), LAMBDA v :
    With(SetPrereleases(specs), LAMBDA prereleases :
        IF ~(prereleases # None /\ prereleases[1]) /\ v.pre THEN FALSE
        ELSE \A sp \in specs : SpecContains(sp, v, prereleases)))

\* One item of Specifier.filter: "yield" when it is yielded at once, "held"
\* when it is a pre-release kept back in found_prereleases, "out" otherwise.
FilterClass(sp, v, prereleases) ==
    IF ~SpecContains(sp, v, IF prereleases = None THEN Some(TRUE) ELSE prereleases)
    THEN "out"
    ELSE IF v.pre /\ ~((prereleases # None /\ prereleases[1])
                       \/ SpecPrereleases(sp))
    THEN "held"
    ELSE "yield"

\* The members of a tagged sequence that carry the tag, in order
Tagged(tagged, class) ==
    With(SelectSeq(tagged, LAMBDA t : t.class = class), LAMBDA chosen :
        [i \in 1..Len(chosen) |-> chosen[i].x])

\* Specifier.filter(iterable, prereleases); iterable holds [k, v]: a text
\* and its parsed version
SpecFilter(sp, iterable, prereleases) ==
    With([i \in 1..Len(iterable) |->
            [x |-> iterable[i],
             class |-> FilterClass(sp, iterable[i].v, prereleases)]],
         LAMBDA tagged :
        IF \E i \in 1..Len(tagged) : tagged[i].class = "yield"
        THEN Tagged(tagged, "yield")
        ELSE Tagged(tagged, "held"))

\* The loop of SpecifierSet.filter over self._specs, taken in `order`.
RECURSIVE FilterChain(_, _, _)
FilterChain(order, iterable, prereleases) ==
    IF order = <<>> THEN iterable
    ELSE FilterChain(Tail(order),
                     SpecFilter(Head(order), iterable, prereleases),
                     prereleases)

\* The texts of an iterable, each with its parsed version
Parsed(iterable) ==
    [i \in 1..Len(iterable) |-> [k |-> iterable[i], v |-> Version(iterable[i])]]

Texts(items) == [i \in 1..Len(items) |-> items[i].k]

\* SpecifierSet.filter, were each clause left to its own pre-release policy
\* (prereleases=None handed to Specifier.filter).
SetFilterPerClause(specs, order, iterable) ==
    With(Parsed(iterable), LAMBDA items :
        IF specs # {} THEN Texts(FilterChain(order, items, None))
        ELSE IF \A i \in 1..Len(items) : items[i].v.pre THEN iterable
        ELSE Texts(SelectSeq(items, LAMBDA x : ~x.v.pre)))

\* SpecifierSet.filter(iterable); order lists self._specs as the frozenset
\* happens to iterate.
SetFilter(specs, order, iterable) ==
    With(Parsed(iterable), LAMBDA items :
        IF specs # {}
        THEN Texts(FilterChain(order, items, SetPrereleases(specs)))
        ELSE IF \A i \in 1..Len(items) : items[i].v.pre THEN iterable
        ELSE Texts(SelectSeq(items, LAMBDA x : ~x.v.pre)))

\* The orders in which a frozenset of clauses can iterate.
Orders(specs) ==
    {o \in [1..Cardinality(specs) -> specs] :
        \A i, j \in 1..Cardinality(specs) : i # j => o[i] # o[j]}

-----------------------------------------------------------------------------
(* honesty.releases: Package, PackageRelease, FileEntry, as deps.py reads  *)
(* them.  package.releases is a dict: here the sequence of its values in   *)
(* the dict's order, each keyed by its version text.                       *)

SDIST == "SDIST"
BDIST_WHEEL == "BDIST_WHEEL"

FileEntry(file_type, url, size, requires_python) ==
    [file_type |-> file_type, url |-> url, size |-> size,
     requires_python |-> requires_python]

PackageRelease(version, files, requires) ==
    [version |-> version, files |-> files, requires |-> requires]

Package(name, releases) == [name |-> name, releases |-> releases]

\* list(package.releases): the keys in the dict's order
ReleaseKeys(package) ==
    [i \in 1..Len(package.releases) |-> package.releases[i].version]

\* package.releases[v]
ReleaseOf(package, v) ==
    package.releases[CHOOSE i \in 1..Len(package.releases) :
                        package.releases[i].version = v]

-----------------------------------------------------------------------------
(* _find_compatible_version                                                *)

\* What the inner loop would find without its `break`: the requires_python
\* of the last file that declares one.
LastRequiresPython(files) ==
    With({i \in 1..Len(files) : /\ files[i].requires_python # None
                                 /\ files[i].requires_python[1] # ""},
         LAMBDA declaring :
        IF declaring = {} THEN None
        ELSE files[CHOOSE i \in declaring : \A j \in declaring : j <= i]
                .requires_python)

\* The inner loop: the requires_python of the first file that declares
\* one (a truthy string), or None.
FirstRequiresPython(files) ==
    With({i \in 1..Len(files) : /\ files[i].requires_python # None
                                 /\ files[i].requires_python[1] # ""},
         LAMBDA declaring :
        IF declaring = {} THEN None
        ELSE files[CHOOSE i \in declaring : \A j \in declaring : i <= j]
                .requires_python)

\* The first loop, were the runtime held against every file that declares
\* a requires_python instead of the first.
RuntimeCompatibleEvery(release, python) ==
    With({SpecifierSet(release.files[i].requires_python[1]) :
            i \in {j \in 1..Len(release.files) :
                        /\ release.files[j].requires_python # None
                        /\ release.files[j].requires_python[1] # ""}},
         LAMBDA declared :
        IF \E rp \in declared : ~rp.ok THEN "invalid"
        ELSE IF \A rp \in declared :
                    rp.specs = {} \/ SetContains(rp.specs, python)
        THEN "yes"
        ELSE "no")

\* One release in the first loop: "invalid" when SpecifierSet(fe.requires_python)
\* raises, else whether
\* `not requires_python or python_version in requires_python`
RuntimeCompatible(release, python) ==
    With(FirstRequiresPython(release.files), LAMBDA rp :
        IF rp = None THEN "yes"
        ELSE With(SpecifierSet(rp[1]), LAMBDA requires_python :
                IF ~requires_python.ok THEN "invalid"
                ELSE IF requires_python.specs = {} THEN "yes"
                ELSE IF SetContains(requires_python.specs, python) THEN "yes"
                ELSE "no"))

\* sorted(possible, key=Version)[0], were the wrong end of the sort taken.
FirstOfSorted(possible) ==
    With(Parsed(possible), LAMBDA items :
    With({i \in 1..Len(items) :
            \A j \in 1..Len(items) : ~VLess(items[j].v, items[i].v)},
         LAMBDA bottom :
        possible[CHOOSE i \in bottom : \A j \in bottom : i <= j]))

\* sorted(possible, key=Version)[-1]: the sort is stable, so of several keys
\* that denote the greatest version the last one listed comes last.
LastOfSorted(possible) ==
    With(Parsed(possible), LAMBDA items :
    With({i \in 1..Len(items) :
            \A j \in 1..Len(items) : ~VLess(items[i].v, items[j].v)},
         LAMBDA top :
        possible[CHOOSE i \in top : \A j \in top : j <= i]))

\* The end of _find_compatible_version: compat[i] is RuntimeCompatible of
\* the i-th release.
Selected(package, specifiers, order, compat) ==
    With(Texts(SelectSeq([i \in 1..Len(compat) |->
                            [k |-> package.releases[i].version, c |-> compat[i]]],
                         LAMBDA x : x.c = "yes")),
         LAMBDA possible :
    With(SetFilter(specifiers, order, possible), LAMBDA matching :
        IF \E i \in 1..Len(compat) : compat[i] = "invalid"
        THEN Raise("InvalidSpecifier", "Invalid specifier")
        ELSE IF Len(possible) = 0 THEN Raise("ValueError", "incompatible with")
        ELSE IF Len(matching) = 0
        THEN Raise("ValueError", "has no compatible release")
        ELSE [ok |-> TRUE, v |-> LastOfSorted(matching)]))

\* _find_compatible_version(package, specifiers, python_version); `order`
\* is the order in which the specifier set iterates.
_find_compatible_version(package, specifiers, order, python) ==
    Selected(package, specifiers, order,
             [i \in 1..Len(package.releases) |->
                RuntimeCompatible(package.releases[i], python)])

-----------------------------------------------------------------------------
(* parse_constraints and LINE_RE                                           *)

\* [\w.-]
IsNameChar(c) == IsWord(c) \/ c \in {".", "-"}

\* [\w,]
IsExtraChar(c) == IsWord(c) \/ c = ","

\* What is left of the line once the lazy group (.*?) has stopped must
\* match \)?\s*(;.*)?$ ; the marker group, when the tail matches.  The dot
\* matches no line break, so a marker with one inside does not reach $.
LineTail(t) ==
    With(LStrip(IF Sub(t, 1, 1) = ")" THEN Tail(t) ELSE t), LAMBDA t2 :
        IF t2 = "" THEN [ok |-> TRUE, markers |-> None]
        ELSE IF Head(t2) = ";" /\ ~Contains(t2, "\n")
        THEN [ok |-> TRUE, markers |-> Some(t2)]
        ELSE [ok |-> FALSE, markers |-> None])

\* The lazy group (.*?): the least k such that the rest after k characters
\* of r is a tail; the group and the markers that follow it.  The group
\* cannot grow over a line break: the match fails there.
RECURSIVE LazyGroup(_, _)
LazyGroup(r, k) ==
    With(LineTail(Sub(r, k + 1, Len(r))), LAMBDA tail :
        IF tail.ok
        THEN [ok |-> TRUE, constraint_str |-> Sub(r, 1, k),
              markers |-> tail.markers]
        ELSE IF Ch(r, k + 1) = "\n"
        THEN [ok |-> FALSE, constraint_str |-> "", markers |-> None]
        ELSE LazyGroup(r, k + 1))

\* The groups after the name: s is the line, i the position after the
\* name and the extra, extra the second group.
LineRest(s, n, extra, i) ==
    With(i + Span(IsSpace, s, i), LAMBDA j :
    With(LazyGroup(Sub(s, IF Ch(s, j) = "(" THEN j + 1 ELSE j, Len(s)), 0),
         LAMBDA g :
        [ok |-> g.ok, name |-> Sub(s, 1, n), extra |-> extra,
         constraint_str |-> g.constraint_str, markers |-> g.markers]))

\* LINE_RE.match(s): [ok, name, extra, constraint_str, markers]
LINE_RE(s) ==
    With(Span(IsNameChar, s, 1), LAMBDA n :
    With(Span(IsExtraChar, s, n + 2), LAMBDA m :
        IF n = 0
        THEN [ok |-> FALSE, name |-> "", extra |-> None, constraint_str |-> "",
              markers |-> None]
        ELSE IF Ch(s, n + 1) = "[" /\ m > 0 /\ Ch(s, n + 2 + m) = "]"
        THEN LineRest(s, n, Some(Sub(s, n + 2, n + 1 + m)), n + m + 3)
        ELSE LineRest(s, n, None, n + 1)))

\* parse_constraints, were the line matched as given instead of stripped
ParseUnstripped(line) ==
    With(LINE_RE(line), LAMBDA match :
        IF ~match.ok THEN Raise("ValueError", "No operator match")
        ELSE With(SpecifierSet(match.constraint_str), LAMBDA specifiers :
                IF ~specifiers.ok THEN [ok |-> FALSE, exc |-> specifiers.exc]
                ELSE [ok |-> TRUE, name |-> match.name, extra |-> match.extra,
                      specifiers |-> specifiers.specs,
                      markers |-> match.markers]))

\* parse_constraints(line): a Constraint, or ValueError / InvalidSpecifier
parse_constraints(line) ==
    With(LINE_RE(Strip(line)), LAMBDA match :
        IF ~match.ok THEN Raise("ValueError", "No operator match")
        ELSE With(SpecifierSet(match.constraint_str), LAMBDA specifiers :
                IF ~specifiers.ok THEN [ok |-> FALSE, exc |-> specifiers.exc]
                ELSE [ok |-> TRUE, name |-> match.name, extra |-> match.extra,
                      specifiers |-> specifiers.specs,
                      markers |-> match.markers]))

-----------------------------------------------------------------------------
(* Environment markers: EnvironmentMarkers, and packaging.markers.Marker   *)
(* for markers written with the variables below, quoted values, the        *)
(* operators of MarkerOps, and / or and parentheses.                       *)

\* asdict(EnvironmentMarkers(python_version=t, python_full_version=...)),
\* t being the first two components of the runtime version
EnvironmentMarkers(python) ==
    [os_name |-> Some("posix"),
     sys_platform |-> Some("linux"),
     platform_machine |-> Some("x86_64"),
     platform_python_implementation |-> Some("CPython"),
     platform_release |-> None,
     platform_system |-> Some("Linux"),
     platform_version |-> None,
     python_version |-> Some(Join(Sub(Split(python, "."), 1, 2), ".")),
     python_full_version |-> Some(python),
     implementation_name |-> Some("cpython"),
     extra |-> None]

MarkerVariables ==
    {"os_name", "sys_platform", "platform_machine",
     "platform_python_implementation", "platform_release", "platform_system",
     "platform_version", "python_version", "python_full_version",
     "implementation_name", "extra"}

MarkerOps3 == {"not in"}
MarkerOps2 == {"==", ">=", "<=", "!=", "~=", "in"}
MarkerOps1 == {">", "<"}

SkipSpace(s, i) == i + Span(IsSpace, s, i)

\* A quoted value whose opening quote is at position i
MarkerValue(s, i) ==
    With(Span(LAMBDA c : c # Ch(s, i), s, i + 1), LAMBDA n :
        IF i + 1 + n <= Len(s)
        THEN [ok |-> TRUE, var |-> FALSE, text |-> Sub(s, i + 1, i + n),
              next |-> i + n + 2]
        ELSE [ok |-> FALSE, var |-> FALSE, text |-> "", next |-> i])

\* MARKER_VAR: a quoted value, or the variable whose name the text goes on
\* with, from position i
MarkerVar(s, i) ==
    IF Ch(s, i) \in {"'", "\""} THEN MarkerValue(s, i)
    ELSE With({v \in MarkerVariables : Sub(s, i, i + Len(v) - 1) = v},
              LAMBDA named :
            IF named = {}
            THEN [ok |-> FALSE, var |-> FALSE, text |-> "", next |-> i]
            ELSE With(CHOOSE v \in named : TRUE, LAMBDA v :
                    [ok |-> TRUE, var |-> TRUE, text |-> v, next |-> i + Len(v)]))

\* MARKER_OP from position i
MarkerOp(s, i) ==
    With(IF Len(s) >= i + 5 /\ Sub(s, i, i + 5) \in MarkerOps3 THEN 6
         ELSE IF Len(s) >= i + 1 /\ Sub(s, i, i + 1) \in MarkerOps2 THEN 2
         ELSE IF Ch(s, i) \in MarkerOps1 THEN 1
         ELSE 0, LAMBDA n :
        [ok |-> n > 0, op |-> Sub(s, i, i + n - 1), next |-> i + n])

\* MARKER_ITEM: MARKER_VAR MARKER_OP MARKER_VAR
MarkerItem(s, i) ==
    With(MarkerVar(s, SkipSpace(s, i)), LAMBDA lhs :
    With(MarkerOp(s, SkipSpace(s, lhs.next)), LAMBDA op :
    With(MarkerVar(s, SkipSpace(s, op.next)), LAMBDA rhs :
        IF lhs.ok /\ op.ok /\ rhs.ok
        THEN [ok |-> TRUE,
              node |-> [k |-> "item", lhs |-> lhs, op |-> op.op, rhs |-> rhs],
              next |-> rhs.next]
        ELSE [ok |-> FALSE, node |-> [k |-> "none"], next |-> i])))

\* LPAREN MARKER_EXPR RPAREN, the expression already read as `inner`
MarkerGroup(s, i, inner) ==
    With(SkipSpace(s, inner.next), LAMBDA close :
        IF inner.ok /\ Ch(s, close) = ")"
        THEN [ok |-> TRUE, node |-> [k |-> "group", items |-> inner.list],
              next |-> close + 1]
        ELSE [ok |-> FALSE, node |-> [k |-> "none"], next |-> i])

\* BOOLOP at position b, or ""
BoolOp(s, b) ==
    IF Sub(s, b, b + 2) = "and" THEN "and"
    ELSE IF Sub(s, b, b + 1) = "or" THEN "or" ELSE ""

\* MARKER_EXPR: MARKER_ATOM (BOOLOP MARKER_EXPR)*, a flat list of items,
\* parenthesised groups and the words between them
RECURSIVE MarkerExpr(_, _)
MarkerExpr(s, i) ==
    With(SkipSpace(s, i), LAMBDA j :
    With(IF Ch(s, j) = "(" THEN MarkerGroup(s, i, MarkerExpr(s, j + 1))
         ELSE MarkerItem(s, j), LAMBDA atom :
    With(SkipSpace(s, atom.next), LAMBDA b :
    With(IF BoolOp(s, b) = "" THEN [ok |-> FALSE]
         ELSE MarkerExpr(s, b + Len(BoolOp(s, b))), LAMBDA more :
        IF ~atom.ok THEN [ok |-> FALSE, list |-> <<>>, next |-> i]
        ELSE IF more.ok
        THEN [ok |-> TRUE,
              list |-> <<atom.node, [k |-> "bool", word |-> BoolOp(s, b)]>>
                        \o more.list,
              next |-> more.next]
        ELSE [ok |-> TRUE, list |-> <<atom.node>>, next |-> atom.next]))))

\* Marker(text): the parsed list, or InvalidMarker
Marker(text) ==
    With(MarkerExpr(text, 1), LAMBDA e :
        IF e.ok /\ SkipSpace(text, e.next) > Len(text)
        THEN [ok |-> TRUE, list |-> e.list]
        ELSE Raise("InvalidMarker", "Invalid marker"))

\* The operators of _operators, applied to two strings
StrCompare(op, l, r) ==
    CASE op = "in" -> Contains(r, l)
      [] op = "not in" -> ~Contains(r, l)
      [] op = "<" -> StrLess(l, r)
      [] op = "<=" -> ~StrLess(r, l)
      [] op = ">" -> StrLess(r, l)
      [] op = ">=" -> ~StrLess(l, r)

\* _eval_op(lhs, op, rhs) on Optional strings, where Specifier(op + rhs)
\* is a specifier
EvalSpec(lhs, spec) ==
    IF lhs = None THEN Raise("TypeError", "version")
    ELSE With(Version(lhs[1]), LAMBDA v :
            IF ~v.ok THEN [ok |-> TRUE, val |-> FALSE]
            ELSE [ok |-> TRUE, val |-> SpecContains(spec, v, None)])

\* _eval_op(lhs, op, rhs) on Optional strings
EvalOp(lhs, op, rhs) ==
    IF Len(rhs) # 1 THEN Raise("TypeError", "join")
    ELSE With(Specifier(op \o rhs[1]), LAMBDA spec :
            IF op \notin MarkerOps3 \cup {"in"} /\ spec.ok
            THEN EvalSpec(lhs, spec)
            ELSE IF op = "~=" THEN Raise("UndefinedComparison", "Undefined")
            ELSE IF op = "==" THEN [ok |-> TRUE, val |-> lhs = rhs]
            ELSE IF op = "!=" THEN [ok |-> TRUE, val |-> lhs # rhs]
            ELSE IF lhs = None THEN Raise("TypeError", "compare")
            ELSE [ok |-> TRUE, val |-> StrCompare(op, lhs[1], rhs[1])])

\* One (lhs, op, rhs) of _evaluate_markers: a variable on the left is read
\* from the environment and the right side taken as written; otherwise the
\* right side is read from the environment, whatever it is.
EvalItem(item, env) ==
    IF item.lhs.var \/ item.rhs.text \in DOMAIN env
    THEN EvalOp(IF item.lhs.var THEN env[item.lhs.text] ELSE Some(item.lhs.text),
                item.op,
                IF item.lhs.var THEN Some(item.rhs.text) ELSE env[item.rhs.text])
    ELSE Raise("UndefinedEnvironmentName", "does not exist")

\* _evaluate_markers(markers, environment): groups is the list of lists it
\* builds, `or` starting a new one; every item is evaluated.
RECURSIVE EvaluateMarkers(_, _, _)
EvaluateMarkers(list, env, groups) ==
    IF list = <<>>
    THEN [ok |-> TRUE,
          val |-> \E g \in 1..Len(groups) :
                    \A x \in 1..Len(groups[g]) : groups[g][x]]
    ELSE IF Head(list).k = "bool"
    THEN EvaluateMarkers(Tail(list), env,
            IF Head(list).word = "or" THEN Append(groups, <<>>) ELSE groups)
    ELSE With(IF Head(list).k = "group"
              THEN EvaluateMarkers(Head(list).items, env, <<<<>>>>)
              ELSE EvalItem(Head(list), env), LAMBDA v :
            IF ~v.ok THEN v
            ELSE EvaluateMarkers(Tail(list), env,
                    [groups EXCEPT ![Len(groups)] = Append(@, v.val)]))

\* Extras(extras), an object that is no string: its __eq__ is never called
\* by the evaluation, which compares strings it reads from the environment
Extras(extras) == <<"Extras", extras>>

\* dict(**asdict(self.markers), extras=Extras(extras))
MarkerEnv(python, extras) ==
    [k \in DOMAIN EnvironmentMarkers(python) \cup {"extras"} |->
        IF k = "extras" THEN Extras(extras) ELSE EnvironmentMarkers(python)[k]]

\* DepWalker._do_markers_match(markers, extras): the Extras object is put
\* under the key "extras", so the marker variable extra reads env["extra"],
\* which is None whatever `extras` holds.
_do_markers_match(markers, extras, python) ==
    With(Marker(Tail(markers)), LAMBDA m :
        IF ~m.ok THEN m
        ELSE EvaluateMarkers(m.list, MarkerEnv(python, extras), <<<<>>>>))

-----------------------------------------------------------------------------
(* convert_sdist_requires                                                  *)

\* repr(x) of a str: single quotes, unless x holds one and no double quote
Repr(x) ==
    IF Contains(x, "'") /\ ~Contains(x, "\"") THEN "\"" \o x \o "\""
    ELSE "'" \o Join(Split(x, "'"), "\\'") \o "'"

\* The marker of a header, were every header taken for an extras_require
HeaderAsExtra(inner) == "extra == " \o Repr(inner)

\* The marker a header line [..] stands for; inner is the text between the
\* brackets.
HeaderMarkers(inner) ==
    With(Span(LAMBDA c : c # ":", inner, 1), LAMBDA n :
        IF n = Len(inner) THEN "extra == " \o Repr(inner)
        ELSE IF n = 0 THEN Sub(inner, 2, Len(inner))
        ELSE "(" \o Sub(inner, n + 2, Len(inner)) \o ") and extra == "
                \o Repr(Sub(inner, 1, n)))

\* The loop over data.splitlines(): current_markers is "" for None.
RECURSIVE ConvertLines(_, _, _)
ConvertLines(lines, current_markers, lst) ==
    IF lines = <<>> THEN lst
    ELSE With(Strip(Head(lines)), LAMBDA line :
            IF line = "" THEN ConvertLines(Tail(lines), current_markers, lst)
            ELSE IF Ch(line, 1) = "[" /\ Ch(line, Len(line)) = "]"
            THEN ConvertLines(Tail(lines),
                              HeaderMarkers(Sub(line, 2, Len(line) - 1)), lst)
            ELSE ConvertLines(Tail(lines), current_markers,
                    Append(lst, IF current_markers # ""
                                THEN line \o "; " \o current_markers
                                ELSE line)))

convert_sdist_requires(data) == ConvertLines(Split(data, "\n"), "", <<>>)

-----------------------------------------------------------------------------
(* The world outside: the package index that parse_index reads, and what   *)
(* lies behind the file urls.                                              *)

\* A release whose dependency list is pre-populated
Preset(version, requires) == PackageRelease(version, <<>>, Some(requires))

\* What an artifact holds: the Requires-Dist lines of a wheel's METADATA
\* (None when it has none), whether a range read of it comes back short,
\* and the requires.txt of an sdist (None when it has none).
Artifact(requires_dist, truncated, requires_txt) ==
    [requires_dist |-> requires_dist, truncated |-> truncated,
     requires_txt |-> requires_txt]

Artifacts ==
    [url \in {"r.whl", "s.whl", "s.tar.gz", "t.tar.gz", "q.whl", "z.whl", "z.exe"} |->
        CASE url = "r.whl" -> Artifact(Some(<<"c">>), TRUE, None)
          [] url = "s.whl" -> Artifact(Some(<<"c", "b; extra == \"x\"">>), FALSE, None)
          [] url = "s.tar.gz" -> Artifact(None, FALSE, Some("nope\n"))
          [] url = "t.tar.gz" ->
                Artifact(None, FALSE,
                    Some("c\n\n[x]\nb (==1.0)\n[:python_version < '3']\na\n"))
          [] OTHER -> Artifact(None, FALSE, None)]

INDEX ==
    {Package("a", <<Preset("1.0", <<"b (==1.0)">>)>>),
     Package("b", <<Preset("1.0", <<"c">>), Preset("2.0", <<>>)>>),
     Package("c", <<Preset("1.0", <<>>)>>),
     \* a diamond: b/1.0 and c/1.0 are required by several parents
     Package("d", <<Preset("1.0", <<"b (>=1.0,<2.0)", "e", "c">>)>>),
     Package("e", <<Preset("1.0", <<"c", "b (== 1.0) ">>)>>),
     \* cycles: f -> g -> f, and h -> h[x] -> h[x]
     Package("f", <<Preset("1.0", <<"g">>)>>),
     Package("g", <<Preset("1.0", <<"f (>=1.0)">>)>>),
     Package("h", <<Preset("1.0", <<"h[x]", "c; extra == 'x'">>)>>),
     \* two ranges of b that select two versions
     Package("i", <<Preset("1.0", <<"b (==1.0)", "j">>)>>),
     Package("j", <<Preset("1.0", <<"b (>=2.0)">>)>>),
     \* environment markers
     Package("k", <<Preset("1.0", <<"nope; sys_platform == \"win32\"",
                                     "c; python_version >= \"3\"",
                                     "b; python_version < \"3\"">>)>>),
     \* failures below the root
     Package("m", <<Preset("1.0", <<"c", "nope">>)>>),
     Package("n", <<Preset("1.0", <<"b (<1.0)">>)>>),
     Package("o", <<Preset("1.0", <<"c", "(bad)", "b">>)>>),
     Package("p", <<Preset("1.0", <<"z">>)>>),
     Package("y", <<Preset("1.0", <<"c ($1.0)">>)>>),
     Package("z", <<PackageRelease("1.0",
                        <<FileEntry("exe", "z.exe", Some(10), None)>>, None)>>),
     \* releases that declare requires_python
     Package("q", <<PackageRelease("1.0",
                        <<FileEntry(BDIST_WHEEL, "q.whl", Some(10), Some(">=3"))>>,
                        Some(<<"c">>)),
                    PackageRelease("2.0",
                        <<FileEntry(BDIST_WHEEL, "q.whl", Some(10), Some(">=3.5"))>>,
                        Some(<<>>))>>),
     \* artifacts: a big wheel read remotely, a small wheel, an sdist
     Package("r", <<PackageRelease("1.0",
                        <<FileEntry(BDIST_WHEEL, "r.whl", None, None)>>, None)>>),
     Package("s", <<PackageRelease("1.0",
                        <<FileEntry(SDIST, "s.tar.gz", Some(10), None),
                          FileEntry(BDIST_WHEEL, "s.whl", Some(20000000), None)>>,
                        None)>>),
     Package("t", <<PackageRelease("1.0",
                        <<FileEntry(SDIST, "t.tar.gz", Some(10), None)>>, None)>>),
     \* extras whose names contain one another
     Package("u", <<Preset("1.0", <<"c; extra == \"testing\"",
                                     "b; extra == \"test\"">>)>>),
     \* releases with files, required twice by one parent
     Package("x", <<Preset("1.0", <<"t", "s", "t (>=1.0)", "z">>)>>),
     \* pre-releases
     Package("v", <<Preset("1.0", <<>>), Preset("2.0a1", <<"c">>)>>),
     Package("w", <<Preset("1.0", <<"v", "v (>=2.0a1)">>)>>)}

\* parse_index(name, cache, use_json=True), as the walker's test stubs it
parse_index(name) ==
    IF \E p \in INDEX : p.name = name
    THEN [ok |-> TRUE, package |-> CHOOSE p \in INDEX : p.name = name]
    ELSE Raise("NotImplementedError", "Unknown package")

-----------------------------------------------------------------------------
(* DepWalker                                                               *)

\* The node, were has_sdist and has_bdist left at the dataclass defaults
DepNodeDefaults(name, version, deps, has_sdist, has_bdist, dep_extras) ==
    [name |-> name, version |-> version, deps |-> deps, has_sdist |-> FALSE,
     has_bdist |-> FALSE, dep_extras |-> dep_extras, done |-> FALSE]

DepNode(name, version, deps, has_sdist, has_bdist, dep_extras) ==
    [name |-> name, version |-> version, deps |-> deps, has_sdist |-> has_sdist,
     has_bdist |-> has_bdist, dep_extras |-> dep_extras, done |-> FALSE]

\* The edge, were it made to the root instead of the node just resolved
DepEdgeToRoot(target, constraints, markers) ==
    [target |-> root[1], constraints |-> constraints, markers |-> markers]

DepEdge(target, constraints, markers) ==
    [target |-> target, constraints |-> constraints, markers |-> markers]

\* The i/o a read of dependencies takes: "range" is SeekableHttpFile(url)
\* and its range requests, "cache" is cache.fetch(name, url) and the read
\* of the local archive
IO(kind, url) == <<[kind |-> kind, url |-> url]>>

\* A read of dependencies that failed after the i/o io
Failed(type, what, io) == [ok |-> FALSE, exc |-> Raise(type, what).exc, io |-> io]

\* read_metadata_remote_wheel(url) or ()
read_metadata_remote_wheel(url) ==
    IF Artifacts[url].truncated
    THEN Failed("ValueError", "Truncated read", IO("range", url))
    ELSE [ok |-> TRUE,
          deps |-> IF Artifacts[url].requires_dist = None THEN <<>>
                   ELSE Artifacts[url].requires_dist[1],
          io |-> IO("range", url)]

\* read_metadata_wheel(cache.fetch(name, url)) or ()
read_metadata_wheel(url) ==
    [ok |-> TRUE,
     deps |-> IF Artifacts[url].requires_dist = None THEN <<>>
              ELSE Artifacts[url].requires_dist[1],
     io |-> IO("cache", url)]

\* read_metadata_sdist(cache.fetch(name, url))
read_metadata_sdist(url) ==
    IF Split(url, ".")[Len(Split(url, "."))] \notin {"zip", "gz", "bz2", "tgz"}
    THEN Failed("ValueError", "Unknown extension", IO("cache", url))
    ELSE IF Artifacts[url].requires_txt = None
    THEN [ok |-> TRUE, deps |-> <<>>, io |-> IO("cache", url)]
    ELSE [ok |-> TRUE,
          deps |-> convert_sdist_requires(Artifacts[url].requires_txt[1]),
          io |-> IO("cache", url)]

\* The size above which a wheel is read remotely
BigWheel == 20000000

\* The first file of a type, or None
FirstFile(files, file_type) ==
    With({i \in 1..Len(files) : files[i].file_type = file_type}, LAMBDA S :
        IF S = {} THEN None
        ELSE Some(files[CHOOSE i \in S : \A j \in S : i <= j]))

\* The wheel branch, were a short remote read taken for "no dependencies"
FetchWheelQuiet(fe) ==
    IF (fe.size = None \/ fe.size[1] > BigWheel) /\ Artifacts[fe.url].truncated
    THEN [ok |-> TRUE, deps |-> <<>>, io |-> IO("range", fe.url)]
    ELSE read_metadata_wheel(fe.url)

\* The wheel branch, were a wheel of exactly BigWheel bytes read remotely
FetchWheelFrom(fe) ==
    IF fe.size = None \/ fe.size[1] >= BigWheel
    THEN read_metadata_remote_wheel(fe.url)
    ELSE read_metadata_wheel(fe.url)

\* The wheel branch of _fetch_single_deps
FetchWheel(fe) ==
    IF fe.size = None \/ fe.size[1] > BigWheel
    THEN read_metadata_remote_wheel(fe.url)
    ELSE read_metadata_wheel(fe.url)

\* _fetch_single_deps, were the files looked at before the pre-populated list
FetchFilesFirst(package, v) ==
    With(ReleaseOf(package, v), LAMBDA release :
        With(FirstFile(release.files, BDIST_WHEEL), LAMBDA wheel :
            IF wheel # None THEN FetchWheel(wheel[1])
            ELSE With(FirstFile(release.files, SDIST), LAMBDA sdist :
                    IF sdist # None THEN read_metadata_sdist(sdist[1].url)
                    ELSE IF release.requires # None
                    THEN [ok |-> TRUE, deps |-> release.requires[1], io |-> <<>>]
                    ELSE Failed("ValueError", "No whl/sdist", <<>>))))

\* DepWalker._fetch_single_deps(package, v, cache)
_fetch_single_deps(package, v) ==
    With(ReleaseOf(package, v), LAMBDA release :
        IF release.requires # None
        THEN [ok |-> TRUE, deps |-> release.requires[1], io |-> <<>>]
        ELSE With(FirstFile(release.files, BDIST_WHEEL), LAMBDA wheel :
                IF wheel # None THEN FetchWheel(wheel[1])
                ELSE With(FirstFile(release.files, SDIST), LAMBDA sdist :
                        IF sdist # None THEN read_metadata_sdist(sdist[1].url)
                        ELSE Failed("ValueError", "No whl/sdist", <<>>))))

\* DepWalker._pick_a_version(con, cache)
_pick_a_version(con, order, python) ==
    With(parse_index(con.name), LAMBDA index :
        IF ~index.ok THEN index
        ELSE With(_find_compatible_version(index.package, con.specifiers,
                                           order, python), LAMBDA v :
                IF ~v.ok THEN v
                ELSE [ok |-> TRUE, package |-> index.package, v |-> v.v]))

\* The condition of walk() under which a dependency string is enqueued.
Included(con, dep_con, extras) ==
    \/ dep_con.markers = None
    \/ ~Contains(dep_con.markers[1], "extra")
    \/ /\ con.extra # None
       /\ con.extra[1] # ""
       /\ Contains(dep_con.markers[1], "extra")
       /\ Contains(dep_con.markers[1], con.extra[1])
    \/ extras

\* The loop over deps, were each string put at the front of the queue
\* (queue.insert(0, ...)).
RECURSIVE EnqueueAtFront(_, _, _, _, _)
EnqueueAtFront(deps, con, node, q, extras) ==
    IF deps = <<>> THEN [ok |-> TRUE, queue |-> q]
    ELSE With(parse_constraints(Head(deps)), LAMBDA dep_con :
            IF ~dep_con.ok THEN [ok |-> FALSE, exc |-> dep_con.exc, queue |-> q]
            ELSE EnqueueAtFront(Tail(deps), con, node,
                    IF Included(con, dep_con, extras)
                    THEN <<[parent |-> Some(node), item |-> Head(deps)]>> \o q
                    ELSE q,
                    extras))

\* The loop over deps, were it left after its first string.
EnqueueFirstOnly(deps, con, node, q, extras) ==
    IF deps = <<>> THEN [ok |-> TRUE, queue |-> q]
    ELSE With(parse_constraints(Head(deps)), LAMBDA dep_con :
            IF ~dep_con.ok THEN [ok |-> FALSE, exc |-> dep_con.exc, queue |-> q]
            ELSE [ok |-> TRUE,
                  queue |-> IF Included(con, dep_con, extras)
                            THEN Append(q, [parent |-> Some(node),
                                            item |-> Head(deps)])
                            ELSE q])

\* The loop `for d in deps` of walk(): every string is parsed, the included
\* ones are appended to the queue; a string that does not parse ends it.
RECURSIVE EnqueueDeps(_, _, _, _, _)
EnqueueDeps(deps, con, node, q, extras) ==
    IF deps = <<>> THEN [ok |-> TRUE, queue |-> q]
    ELSE With(parse_constraints(Head(deps)), LAMBDA dep_con :
            IF ~dep_con.ok THEN [ok |-> FALSE, exc |-> dep_con.exc, queue |-> q]
            ELSE EnqueueDeps(Tail(deps), con, node,
                    IF Included(con, dep_con, extras)
                    THEN Append(q, [parent |-> Some(node), item |-> Head(deps)])
                    ELSE q,
                    extras))

\* The walker after a step of walk(): its fields, whether walk() is still
\* running, and the exception that left it.
Walker(q, h, nd, r, st, err, f, l) ==
    [queue |-> q, heap |-> h, nodes |-> nd, root |-> r, status |-> st,
     error |-> err, fetched |-> f, lookups |-> l]

\* node.done, were the flag never read as set
NeverDone(h, node) == FALSE

\* node.done
Done(h, node) == h[node].done

\* `continue`, were the item of a done node put back at the end of the
\* queue and the iteration undone.
Requeue(rest, h, nd, r, f) ==
    Walker(Append(rest, Head(queue)), heap, nodes, root, "running", None,
           fetched, lookups)

Continue(rest, h, nd, r, f) ==
    Walker(rest, h, nd, r, "running", None, f, lookups + 1)

\* The end of an iteration, were `node.done = True` left out
ExpandUnmarked(con, rest, h, nd, r, f, node, package, v) ==
    IF Done(h, node) THEN Continue(rest, h, nd, r, f)
    ELSE With(_fetch_single_deps(package, v), LAMBDA deps :
    With([f EXCEPT ![node] = @ + 1], LAMBDA f2 :
        IF ~deps.ok
        THEN Walker(rest, h, nd, r, "raised", Some(deps.exc), f2, lookups + 1)
        ELSE With(EnqueueDeps(deps.deps, con, node, rest, include_extras),
                  LAMBDA enq :
                IF ~enq.ok
                THEN Walker(enq.queue, h, nd, r, "raised", Some(enq.exc), f2,
                            lookups + 1)
                ELSE Walker(enq.queue, h, nd, r, "running", None, f2,
                            lookups + 1))))

\* The end of an iteration: `if node.done: continue`, the fetch, the loop
\* over deps and `node.done = True`.  h, nd, r, f are the walker's fields
\* once the node and the edge are in place.
Expand(con, rest, h, nd, r, f, node, package, v) ==
    IF Done(h, node) THEN Continue(rest, h, nd, r, f)
    ELSE With(_fetch_single_deps(package, v), LAMBDA deps :
    With([f EXCEPT ![node] = @ + 1], LAMBDA f2 :
        IF ~deps.ok
        THEN Walker(rest, h, nd, r, "raised", Some(deps.exc), f2, lookups + 1)
        ELSE With(EnqueueDeps(deps.deps, con, node, rest, include_extras),
                  LAMBDA enq :
                IF ~enq.ok
                THEN Walker(enq.queue, h, nd, r, "raised", Some(enq.exc), f2,
                            lookups + 1)
                ELSE Walker(enq.queue, [h EXCEPT ![node].done = TRUE], nd, r,
                            "running", None, f2, lookups + 1))))

\* The key, were the extra left out of it
NodeKeyNoExtra(package, v, con) == <<package.name, v, None>>

\* The key, were one node kept per package name and extra
NodeKeyNoVersion(package, v, con) == <<package.name, "", con.extra>>

\* key = (package.name, v, con.extra)
NodeKey(package, v, con) == <<package.name, v, con.extra>>

\* The node of the chosen release: looked up under its key or created;
\* then the root is set or the edge appended to the parent.
Link(parent, con, rest, package, v) ==
    With(NodeKey(package, v, con), LAMBDA key :
    With(IF key \in DOMAIN nodes THEN nodes[key] ELSE Len(heap) + 1,
         LAMBDA node :
    With(IF key \in DOMAIN nodes THEN heap
         ELSE Append(heap,
                DepNode(package.name, v, <<>>,
                        FirstFile(ReleaseOf(package, v).files, SDIST) # None,
                        FirstFile(ReleaseOf(package, v).files, BDIST_WHEEL) # None,
                        con.extra)),
         LAMBDA heap1 :
        Expand(con, rest,
               IF parent = None THEN heap1
               ELSE [heap1 EXCEPT ![parent[1]].deps =
                        Append(@, DepEdge(node, SpecifierSetStr(con.specifiers),
                                          con.markers))],
               [k \in DOMAIN nodes \cup {key} |->
                    IF k = key THEN node ELSE nodes[k]],
               IF parent = None THEN Some(node) ELSE root,
               IF key \in DOMAIN nodes THEN fetched ELSE Append(fetched, 0),
               node, package, v))))

\* The iteration, were the version picked before the marker is looked at
IterationPickFirst(parent, item, rest, order) ==
    With(parse_constraints(item), LAMBDA con :
        IF ~con.ok
        THEN Walker(rest, heap, nodes, root, "raised", Some(con.exc), fetched,
                    lookups)
        ELSE With(_pick_a_version(con, order, python_version), LAMBDA pick :
             With(IF con.markers # None
                  THEN _do_markers_match(con.markers[1], <<>>, python_version)
                  ELSE [ok |-> TRUE, val |-> TRUE], LAMBDA match :
                IF ~pick.ok
                THEN Walker(rest, heap, nodes, root, "raised", Some(pick.exc),
                            fetched, lookups + 1)
                ELSE IF ~match.ok
                THEN Walker(rest, heap, nodes, root, "raised", Some(match.exc),
                            fetched, lookups + 1)
                ELSE IF ~match.val
                THEN Walker(rest, heap, nodes, root, "running", None, fetched,
                            lookups + 1)
                ELSE Link(parent, con, rest, pick.package, pick.v))))

\* One iteration of `while self.queue` on the item popped, the specifier
\* set iterating in `order` inside _find_compatible_version.
Iteration(parent, item, rest, order) ==
    With(parse_constraints(item), LAMBDA con :
    With(IF con.ok /\ con.markers # None
         THEN _do_markers_match(con.markers[1], <<>>, python_version)
         ELSE [ok |-> TRUE, val |-> TRUE], LAMBDA match :
        IF ~con.ok
        THEN Walker(rest, heap, nodes, root, "raised", Some(con.exc), fetched,
                    lookups)
        ELSE IF ~match.ok
        THEN Walker(rest, heap, nodes, root, "raised", Some(match.exc), fetched,
                    lookups)
        ELSE IF ~match.val
        THEN Walker(rest, heap, nodes, root, "running", None, fetched, lookups)
        ELSE With(_pick_a_version(con, order, python_version), LAMBDA pick :
                IF ~pick.ok
                THEN Walker(rest, heap, nodes, root, "raised", Some(pick.exc),
                            fetched, lookups + 1)
                ELSE Link(parent, con, rest, pick.package, pick.v))))

StartingPackages ==
    {"a", "d", "f", "h", "h[x]", "i", "k", "m", "n", "o", "p", "q", "r", "s",
     "s[x]", "t", "t[x]", "u[test]", "u[testing]", "w", "x", "y", "b (==1.0)",
     " a ", "nope", "", "v (>=2.0a1)", "q (<2.0)",
     "a; python_version < \"3\"", "c; bogus", "e ; extra == 'x'"}

WalkPythons == {"2.7.0", "3.6.0"}

SelIdle ==
    /\ selPackage = Package("", <<>>)
    /\ selSpec = ""
    /\ selPython = ""
    /\ selCalls = <<>>

\* DepWalker(starting_package, python_version), about to walk(include_extras)
Init ==
    /\ starting_package \in StartingPackages
    /\ python_version \in WalkPythons
    /\ include_extras \in BOOLEAN
    /\ heap = <<>>
    /\ nodes = [k \in {} |-> 0]
    /\ queue = <<[parent |-> None, item |-> starting_package]>>
    /\ root = None
    /\ status = "running"
    /\ error = None
    /\ fetched = <<>>
    /\ lookups = 0
    /\ walks = 1
    /\ SelIdle
    /\ HttpIdle
    /\ CallIdle

\* The walker's fields become those of w.
Becomes(w) ==
    /\ queue' = w.queue
    /\ heap' = w.heap
    /\ nodes' = w.nodes
    /\ root' = w.root
    /\ status' = w.status
    /\ error' = w.error
    /\ fetched' = w.fetched
    /\ lookups' = w.lookups
    /\ UNCHANGED <<starting_package, python_version, include_extras, walks,
                   selVars, http, call>>

\* The orders in which the specifier set of the head item can iterate.
HeadOrders ==
    With(parse_constraints(Head(queue).item), LAMBDA con :
        IF con.ok THEN Orders(con.specifiers) ELSE {<<>>})

\* `while self.queue:` one iteration, from pop(0) to `node.done = True`
WalkStep ==
    /\ status = "running"
    /\ queue # <<>>
    /\ \E order \in HeadOrders :
        Becomes(Iteration(Head(queue).parent, Head(queue).item, Tail(queue),
                          order))

\* The queue is empty: `assert self.root is not None; return self.root`
WalkReturn ==
    /\ status = "running"
    /\ queue = <<>>
    /\ Becomes(IF root = None
               THEN Walker(queue, heap, nodes, root, "raised",
                        Some([type |-> "AssertionError", what |-> "root is None"]),
                        fetched, lookups)
               ELSE Walker(queue, heap, nodes, root, "returned", None, fetched,
                           lookups))

\* The calls of walk() made on one walker
MaxWalks == 2

\* walk() called again with the queue put back to the starting requirement,
\* as __init__ leaves it
WalkAgainReseeded ==
    /\ status = "returned"
    /\ walks < MaxWalks
    /\ \E again \in BOOLEAN :
        /\ walks' = walks + 1
        /\ status' = "running"
        /\ queue' = <<[parent |-> None, item |-> starting_package]>>
    /\ UNCHANGED <<starting_package, python_version, include_extras, heap,
                   nodes, root, error, fetched, lookups, selVars, http,
                   call>>

\* walk(again) called on the walker whose walk() has returned: the walker
\* keeps its fields (walk() assigns none before the loop), `while
\* self.queue` is entered once more.  The flag of the new call is read only
\* inside the loop (line 164).
WalkAgain ==
    /\ status = "returned"
    /\ walks < MaxWalks
    /\ \E again \in BOOLEAN :
        /\ walks' = walks + 1
        /\ status' = "running"
    /\ UNCHANGED <<starting_package, python_version, include_extras, heap,
                   nodes, queue, root, error, fetched, lookups, selVars, http,
                   call>>

Next == WalkStep \/ WalkReturn \/ WalkAgain

Spec == Init /\ [][Next]_vars

\* The loop of walk() runs on: weak fairness of Next, whose enabling
\* condition is status = "running" (the loop has an iteration to run, or
\* the return).
FairSpec == Spec /\ ([]<>(status # "running") \/ []<><<Next>>_vars)

-----------------------------------------------------------------------------
(* Version selection on its own: a package, a constraint text and a        *)
(* runtime are drawn, and the selection is made twice.                     *)

MaxReleases == 2
MaxClauses == 2

VersionKeys == {"1.0", "1.0.0", "2.0", "2.0a1"}

\* File lists: none declares requires_python; the second file is the first
\* to declare one and a later file contradicts it; the only file declares;
\* the only file declares what is no specifier set.
FileLists ==
    {<<>>,
     <<FileEntry(SDIST, "u", None, Some("bogus"))>>,
     <<FileEntry(SDIST, "s", None, None),
       FileEntry(BDIST_WHEEL, "w", None, Some(">=2.0")),
       FileEntry(SDIST, "t", None, Some("<2.0"))>>,
     <<FileEntry(BDIST_WHEEL, "w", None, Some("<2.0"))>>}

PythonVersions == {"1.5", "2.0"}

SelPackages ==
    {Package("foo", [i \in 1..Len(ks) |-> PackageRelease(ks[i][1], ks[i][2], None)]) :
        ks \in {s \in UNION {[1..n -> VersionKeys \X FileLists] : n \in 0..MaxReleases} :
                    \A i, j \in 1..Len(s) : i # j => s[i][1] # s[j][1]}}

ClauseOps == <<"==", "!=", "<=", ">=", "<", ">", "~=", "$">>
ClauseOperands == <<"1.0", "2.0", "2.0a1">>

ClauseList ==
    [i \in 1..(Len(ClauseOps) * Len(ClauseOperands)) |->
        ClauseOps[((i - 1) \div Len(ClauseOperands)) + 1]
            \o ClauseOperands[((i - 1) % Len(ClauseOperands)) + 1]]

\* The constraint texts: up to MaxClauses different clauses, comma-separated.
SelSpecs ==
    {Join([j \in 1..Len(c) |-> ClauseList[c[j]]], ",") :
        c \in {s \in UNION {[1..n -> 1..Len(ClauseList)] : n \in 0..MaxClauses} :
                    \A i, j \in 1..Len(s) : i < j => s[i] < s[j]}}

WalkIdle ==
    /\ starting_package = ""
    /\ python_version = ""
    /\ include_extras = FALSE
    /\ heap = <<>>
    /\ nodes = <<>>
    /\ queue = <<>>
    /\ root = None
    /\ status = "idle"
    /\ error = None
    /\ fetched = <<>>
    /\ lookups = 0
    /\ walks = 0

\* The inputs drawn: every package with every runtime under a few
\* constraints, and every package without files under every constraint.
SelShortSpecs == {"", "==1.0", ">=2.0a1"}

SelInputs ==
    (SelPackages \X SelShortSpecs \X PythonVersions)
    \cup ({p \in SelPackages : \A i \in 1..Len(p.releases) : p.releases[i].files = <<>>}
            \X SelSpecs \X {"2.0"})

SelInit ==
    /\ \E in \in SelInputs :
        /\ selPackage = in[1]
        /\ selSpec = in[2]
        /\ selPython = in[3]
    /\ selCalls = <<>>
    /\ WalkIdle
    /\ HttpIdle
    /\ CallIdle

\* The orders in which the specifier set built from `text` can iterate.
SelOrdersOf(text) ==
    With(SpecifierSet(text), LAMBDA ss :
        IF ss.ok THEN Orders(ss.specs) ELSE {<<>>})

\* SpecifierSet(constraint_str), as parse_constraints builds it, then
\* _find_compatible_version
Selection(package, text, order, python) ==
    With(SpecifierSet(text), LAMBDA ss :
        IF ~ss.ok THEN [ok |-> FALSE, exc |-> ss.exc]
        ELSE _find_compatible_version(package, ss.specs, order, python))

\* One selection
SelectWith(order) ==
    /\ selCalls' = Append(selCalls,
                          Selection(selPackage, selSpec, order, selPython))
    /\ UNCHANGED <<selPackage, selSpec, selPython, walkVars, http, call>>

Select ==
    /\ Len(selCalls) = 0
    /\ \E order \in SelOrdersOf(selSpec) : SelectWith(order)

SelectAgain ==
    /\ Len(selCalls) = 1
    /\ \E order \in SelOrdersOf(selSpec) : SelectWith(order)

SelNext == Select \/ SelectAgain

SelSpec == SelInit /\ [][SelNext]_vars

-----------------------------------------------------------------------------
(* SeekableHttpFile: a remote resource read through range requests         *)

MaxLength == 6
MaxOps == 3

\* `optimistic`, the bytes of the tail asked for at construction, scaled
\* down from the 256000 of the source to the lengths drawn here
Optimistic == 4

\* The resource behind the url: L bytes, byte i (from 1) of value i
Resource(L) == [i \in 1..L |-> i]

\* b[lo:hi] of Python for 0 <= lo
Slice(b, lo, hi) ==
    [i \in 1..((IF hi < Len(b) THEN hi ELSE Len(b)) - lo) |-> b[lo + i]]

\* The server's answer to "Range: bytes=-k": the last k bytes, or all of a
\* shorter resource, under "Content-Range: bytes start-end/length"
SuffixRange(resource, k) ==
    [start |-> IF Len(resource) > k THEN Len(resource) - k ELSE 0,
     length |-> Len(resource),
     body |-> Slice(resource, IF Len(resource) > k THEN Len(resource) - k ELSE 0,
                    Len(resource))]

\* The answers a server may give to "Range: bytes=first-last": the bytes
\* asked for, up to the end of the resource; 416 when first is not in the
\* resource; for a first below 0 the header is no byte range, and the
\* server refuses it or ignores it and sends the whole resource
ByteRange(resource, first, last) ==
    IF first < 0
    THEN {Raise("HTTPError", "400"), [ok |-> TRUE, body |-> resource]}
    ELSE IF first >= Len(resource) THEN {Raise("HTTPError", "416")}
    ELSE {[ok |-> TRUE, body |-> Slice(resource, first, last + 1)]}

\* SeekableHttpFile(url), for the url of the resource
SeekableHttpFile(resource) ==
    [phase |-> "open",
     resource |-> resource,
     pos |-> 0,
     length |-> SuffixRange(resource, Optimistic).length,
     end_cache |-> SuffixRange(resource, Optimistic).body,
     end_cache_start |-> SuffixRange(resource, Optimistic).start,
     requests |-> 1,
     asked |-> <<>>,
     calls |-> <<>>,
     rets |-> <<>>]

\* A call made on the object, and what a call gives back
Call(op, a, b) == [op |-> op, a |-> a, b |-> b]
Returns(val) == [ok |-> TRUE, val |-> val]

\* The object after a call, with the call and its result on record
After(h, c, ret) ==
    [h EXCEPT !.calls = Append(@, c), !.rets = Append(@, ret)]

\* seek(pos, whence)
seek(h, pos, whence) ==
    IF whence = 0
    THEN After([h EXCEPT !.pos = pos], Call("seek", pos, whence), Returns(None))
    ELSE IF whence = 1
    THEN After([h EXCEPT !.pos = @ + pos], Call("seek", pos, whence),
               Returns(None))
    ELSE IF whence = 2
    THEN After([h EXCEPT !.pos = h.length + pos], Call("seek", pos, whence),
               Returns(None))
    ELSE After(h, Call("seek", pos, whence),
               Raise("ValueError", "Invalid value for whence"))

\* tell()
tell(h) == After(h, Call("tell", 0, 0), Returns(h.pos))

\* n after `if n == -1: n = self.length - self.pos`
ReadSize(h, n) == IF n = -1 THEN h.length - h.pos ELSE n

\* The read is served from the cached tail: p >= 0
FromCache(h) == h.pos - h.end_cache_start >= 0

\* self.end_cache[: n], were p left out of the slice
CacheHead(h, n) == Slice(h.end_cache, 0, n)

\* self.end_cache[p : p + n]
CacheSlice(h, n) ==
    Slice(h.end_cache, h.pos - h.end_cache_start,
          h.pos - h.end_cache_start + n)

\* `if len(data) != n: raise ValueError("Truncated read", ...)`
Truncated(data, n) == Len(data) # n

\* The object once "Range: bytes=%d-%d" % (pos, pos + n - 1) is sent
Requested(h, n) ==
    [h EXCEPT !.requests = @ + 1, !.asked = Append(@, <<h.pos, h.pos + n - 1>>)]

\* The part of read(n) after the range request, were the bytes received
\* kept as the cache
ReadRangeCaching(h, n0, n, answer) ==
    IF ~answer.ok THEN After(Requested(h, n), Call("read", n0, 0), answer)
    ELSE After([Requested(h, n) EXCEPT !.pos = @ + n,
                                       !.end_cache = answer.body,
                                       !.end_cache_start = h.pos],
               Call("read", n0, 0),
               IF Truncated(answer.body, n)
               THEN Raise("ValueError", "Truncated read")
               ELSE Returns(answer.body))

\* The part of read(n) after the range request, were the length of the
\* data checked before `self.pos += n`
ReadRangeCheckedFirst(h, n0, n, answer) ==
    IF ~answer.ok THEN After(Requested(h, n), Call("read", n0, 0), answer)
    ELSE IF Truncated(answer.body, n)
    THEN After(Requested(h, n), Call("read", n0, 0),
               Raise("ValueError", "Truncated read"))
    ELSE After([Requested(h, n) EXCEPT !.pos = @ + n],
               Call("read", n0, 0), Returns(answer.body))

\* The part of read(n) after the range request was answered
ReadRange(h, n0, n, answer) ==
    IF ~answer.ok THEN After(Requested(h, n), Call("read", n0, 0), answer)
    ELSE After([Requested(h, n) EXCEPT !.pos = @ + n],
               Call("read", n0, 0),
               IF Truncated(answer.body, n)
               THEN Raise("ValueError", "Truncated read")
               ELSE Returns(answer.body))

\* read(n), answer being the server's answer if a request is made
read(h, n, answer) ==
    IF ReadSize(h, n) = 0 THEN After(h, Call("read", n, 0), Returns(<<>>))
    ELSE IF FromCache(h)
    THEN After([h EXCEPT !.pos = @ + ReadSize(h, n)], Call("read", n, 0),
               Returns(CacheSlice(h, ReadSize(h, n))))
    ELSE ReadRange(h, n, ReadSize(h, n), answer)

\* The answers read(n) may get: none is asked for without a request
Answers(h, n) ==
    IF ReadSize(h, n) = 0 \/ FromCache(h) THEN {None}
    ELSE ByteRange(h.resource, h.pos, h.pos + ReadSize(h, n) - 1)

\* The arguments drawn
SeekOffsets == {-4, -1, 0, 1, 2, 3, MaxLength + 1}
Whences == 0..3
ReadSizes == {-1, 0, 1, 2, 4, 5, MaxLength + 1}

HttpInit ==
    /\ \E L \in 1..MaxLength : http = SeekableHttpFile(Resource(L))
    /\ WalkIdle
    /\ SelIdle
    /\ CallIdle

Seek ==
    /\ Len(http.calls) < MaxOps
    /\ \E pos \in SeekOffsets, whence \in Whences :
        http' = seek(http, pos, whence)
    /\ UNCHANGED <<walkVars, selVars, call>>

Tell ==
    /\ Len(http.calls) < MaxOps
    /\ http' = tell(http)
    /\ UNCHANGED <<walkVars, selVars, call>>

Read ==
    /\ Len(http.calls) < MaxOps
    /\ \E n \in ReadSizes : \E answer \in Answers(http, n) :
        http' = read(http, n, answer)
    /\ UNCHANGED <<walkVars, selVars, call>>

HttpNext == Seek \/ Tell \/ Read

HttpSpec == HttpInit /\ [][HttpNext]_vars

-----------------------------------------------------------------------------
(* convert_sdist_requires, parse_constraints and _fetch_single_deps called *)
(* on their own                                                            *)

MaxLines == 3
MaxFiles == 2

\* The texts of a requires.txt: up to MaxLines lines, each ended by "\n"
RequiresLines ==
    {"a", " b (>=1.0) ", "", "[x]", " [:v < '3']", "[x:v < '3']", "[:]", "[]"}

RECURSIVE Ended(_)
Ended(lines) ==
    IF lines = <<>> THEN "" ELSE Head(lines) \o "\n" \o Ended(Tail(lines))

RequiresTexts ==
    {Ended(ls) : ls \in UNION {[1..n -> RequiresLines] : n \in 0..MaxLines}}

\* Requirement lines, each with the parts it is written from: a name, an
\* extra or none, clauses in or out of parentheses or none, a marker or
\* none; and lines that are no requirement (written from no name)
Written(text, name, clauses, marker) ==
    [text |-> text, name |-> name, clauses |-> clauses, marker |-> marker]

ClauseGroups ==
    {<<"", <<>>>>, <<" ", <<>>>>, <<"(==1.0)", <<"==1.0">>>>,
     <<" (== 1.0) ", <<"==1.0">>>>, <<"==1.0", <<"==1.0">>>>,
     <<" (==1.0,<2)", <<"==1.0", "<2">>>>, <<"(<2,==1.0)", <<"<2", "==1.0">>>>,
     <<"(>= 1.0, <2)", <<">=1.0", "<2">>>>,
     <<" >=1.0,<2 ", <<">=1.0", "<2">>>>,
     <<"(<2 , >= 1.0)", <<"<2", ">=1.0">>>>}

LineMarkers == {"", "; python_version > \"3\"", ";x", " ;  extra == 'x' "}

RequirementLines ==
    {Written(name \o extra \o group[1] \o marker, Some(Strip(name)), group[2],
             IF marker = "" THEN None ELSE Some(Strip(marker))) :
        name \in {"foo", " a-b.c"}, extra \in {"", "[x]"},
        group \in ClauseGroups, marker \in LineMarkers}
    \cup {Written(text, None, <<>>, None) :
            text \in {"", "(==1.0)", "; x", "foo ($1.0)", "[x]", " \n", "-",
                      \* texts with a line break inside
                      "foo\n(==1.0)", "foo (==1.0\n,<2)", "foo (==1.0)\n; x",
                      "foo ; x\ny", "foo\n\n", "foo[x]\n==1.0\n", "\nfoo",
                      "foo (\n==1.0)", "(==1.0)\nfoo"}}

\* Releases: up to MaxFiles files over the artifacts, and the dependency
\* list pre-populated or not
FileEntries ==
    {FileEntry(t[1], t[2], size, None) :
        t \in {<<BDIST_WHEEL, "r.whl">>, <<BDIST_WHEEL, "s.whl">>,
               <<BDIST_WHEEL, "z.whl">>, <<SDIST, "s.tar.gz">>,
               <<SDIST, "t.tar.gz">>, <<"exe", "z.exe">>},
        size \in {None, Some(10), Some(BigWheel), Some(BigWheel + 1)}}

FetchReleases ==
    {PackageRelease("1.0", files, requires) :
        files \in UNION {[1..n -> FileEntries] : n \in 0..MaxFiles},
        requires \in {None, Some(<<>>), Some(<<"c", "b (==1.0)">>)}}

\* Markers, extras and runtimes given to _do_markers_match
MatchMarkers ==
    {"; extra == \"foo\"", "; extra == 'x'", ";extra != \"foo\"",
     "; python_version >= \"3\"", "; python_version < \"3\" or extra == \"foo\"",
     "; (python_version >= \"3\") and extra == \"foo\"",
     "; \"foo\" == \"extras\"", "; \"foo\" == extra", "; bogus",
     "; sys_platform == \"win32\"", "; os_name in \"posix nt\""}

MatchExtras == {<<>>, <<"foo">>, <<"x", "foo">>, <<"bar">>}

MatchInputs ==
    {[markers |-> m, extras |-> e, python |-> p] :
        m \in MatchMarkers, e \in MatchExtras, p \in {"2.7.0", "3.6.0"}}

CallInputs ==
    ({"_do_markers_match"} \X MatchInputs) \cup
    ({"convert_sdist_requires"} \X RequiresTexts)
    \cup ({"parse_constraints"} \X RequirementLines)
    \cup ({"_fetch_single_deps"} \X {Package("foo", <<r>>) : r \in FetchReleases})

CallInit ==
    /\ \E in \in CallInputs :
        call = [fn |-> in[1], arg |-> in[2], done |-> FALSE, ret |-> None]
    /\ WalkIdle
    /\ SelIdle
    /\ HttpIdle

\* The call returns ret
Gives(ret) ==
    /\ ~call.done
    /\ call' = [call EXCEPT !.done = TRUE, !.ret = ret]
    /\ UNCHANGED <<walkVars, selVars, http>>

Convert ==
    /\ call.fn = "convert_sdist_requires"
    /\ Gives(convert_sdist_requires(call.arg))

Parse ==
    /\ call.fn = "parse_constraints"
    /\ Gives(parse_constraints(call.arg.text))

Fetch ==
    /\ call.fn = "_fetch_single_deps"
    /\ Gives(_fetch_single_deps(call.arg, "1.0"))

Match ==
    /\ call.fn = "_do_markers_match"
    /\ Gives(_do_markers_match(call.arg.markers, call.arg.extras,
                               call.arg.python))

CallNext == Convert \/ Parse \/ Fetch \/ Match

CallSpec == CallInit /\ [][CallNext]_vars

\* A walk, or one call of a function the walk is made of
WalkOrCallInit == Init \/ CallInit

WalkOrCallNext == Next \/ CallNext

WalkOrCallSpec == WalkOrCallInit /\ [][WalkOrCallNext]_vars

-----------------------------------------------------------------------------
(* Properties of the walk                                                  *)

\* The release a node stands for, and its raw dependency strings
NodePackage(n) == CHOOSE p \in INDEX : p.name = heap[n].name
NodeRelease(n) == ReleaseOf(NodePackage(n), heap[n].version)
RawDeps(n) == _fetch_single_deps(NodePackage(n), heap[n].version).deps

\* The marker of a parsed requirement is absent or evaluates true
MarkerHolds(c) ==
    \/ c.markers = None
    \/ LET m == _do_markers_match(c.markers[1], <<>>, python_version)
       IN m.ok /\ m.val

\* The version selected for a parsed requirement
Chosen(c) ==
    _find_compatible_version(parse_index(c.name).package, c.specifiers,
                             CHOOSE o \in Orders(c.specifiers) : TRUE,
                             python_version)

\* The table node of a requirement, 0 when the table has none
TableNode(c) ==
    IF parse_index(c.name).ok /\ Chosen(c).ok
          /\ <<c.name, Chosen(c).v, c.extra>> \in DOMAIN nodes
    THEN nodes[<<c.name, Chosen(c).v, c.extra>>]
    ELSE 0

\* The edges owed to a node with active extra `extra` for the dependency
\* strings deps, in their order
RECURSIVE EdgesOf(_, _)
EdgesOf(deps, extra) ==
    IF deps = <<>> THEN <<>>
    ELSE LET c == parse_constraints(Head(deps))
         IN IF c.ok /\ Included([extra |-> extra], c, include_extras)
                    /\ MarkerHolds(c)
            THEN <<[target |-> TableNode(c),
                    constraints |-> SpecifierSetStr(c.specifiers),
                    markers |-> c.markers]>> \o EdgesOf(Tail(deps), extra)
            ELSE EdgesOf(Tail(deps), extra)

\* The graph of the chain a -> b (==1.0) -> c
ChainGraph ==
    <<[name |-> "a", version |-> "1.0",
       deps |-> <<[target |-> 2, constraints |-> "==1.0", markers |-> None]>>,
       has_sdist |-> FALSE, has_bdist |-> FALSE, dep_extras |-> None,
       done |-> TRUE],
      [name |-> "b", version |-> "1.0",
       deps |-> <<[target |-> 3, constraints |-> "", markers |-> None]>>,
       has_sdist |-> FALSE, has_bdist |-> FALSE, dep_extras |-> None,
       done |-> TRUE],
      [name |-> "c", version |-> "1.0", deps |-> <<>>,
       has_sdist |-> FALSE, has_bdist |-> FALSE, dep_extras |-> None,
       done |-> TRUE]>>

\* C1: when walk returns, every node of the table is done and its deps are
\* exactly the edges of its release's dependency strings that pass the
\* inclusion rule and whose marker is absent or true, in the order listed,
\* each to the table node of (name, selected version, extra); the chain
\* a -> b (==1.0) -> c gives a/1.0 -> b/1.0 -> c/1.0 though b has a 2.0.
C1_EdgesPerDependency ==
    status = "returned" =>
        /\ \A n \in 1..Len(heap) :
            /\ heap[n].done
            /\ heap[n].deps = EdgesOf(RawDeps(n), heap[n].dep_extras)
            /\ \A e \in 1..Len(heap[n].deps) : heap[n].deps[e].target # 0
        /\ Strip(starting_package) = "a" => heap = ChainGraph /\ root = Some(1)

\* A finished walk in which a node has two edges and a third dependency
\* string that its marker kept out.
C1_SomeDependencyLeftOut ==
    /\ status = "returned"
    /\ \E n \in 1..Len(heap) :
        Len(heap[n].deps) = 2 /\ Len(RawDeps(n)) = 3

Triple(n) == <<heap[n].name, heap[n].version, heap[n].dep_extras>>

\* The edge is the one of the dependency string d
Occurrence(d, edge) ==
    LET c == parse_constraints(d)
    IN /\ c.ok
       /\ c.name = heap[edge.target].name
       /\ c.extra = heap[edge.target].dep_extras
       /\ edge.constraints = SpecifierSetStr(c.specifiers)
       /\ edge.markers = c.markers

\* C2: in every state of a walk no two DepNodes have one (name, version,
\* extra) triple, the table maps each triple to the node that carries it,
\* every edge targets the table node of its target's triple, and carries the
\* rendered specifiers and the marker of a dependency string of its parent.
C2_OneNodePerTriple ==
    /\ \A i, j \in 1..Len(heap) : Triple(i) = Triple(j) => i = j
    /\ DOMAIN nodes = {Triple(n) : n \in 1..Len(heap)}
    /\ \A k \in DOMAIN nodes : nodes[k] \in 1..Len(heap) /\ Triple(nodes[k]) = k
    /\ \A p \in 1..Len(heap) : \A e \in 1..Len(heap[p].deps) :
        /\ heap[p].deps[e].target \in 1..Len(heap)
        /\ nodes[Triple(heap[p].deps[e].target)] = heap[p].deps[e].target
        /\ \E d \in 1..Len(RawDeps(p)) : Occurrence(RawDeps(p)[d], heap[p].deps[e])

\* Two parents have an edge to one node, under different constraint texts.
C2_SharedByTwoParents ==
    \E p, q \in 1..Len(heap) : \E e \in 1..Len(heap[p].deps) :
        \E g \in 1..Len(heap[q].deps) :
            /\ p # q
            /\ heap[p].deps[e].target = heap[q].deps[g].target
            /\ heap[p].deps[e].constraints # heap[q].deps[g].constraints

\* C3: the walk loop halts, whatever the index and the starting requirement
\* are, cycles included: walk returns or raises.
C3_WalkHalts == <>(status # "running")

\* A walk over a cycle has returned: two nodes with an edge each way.
C3_CycleWalked ==
    /\ status = "returned"
    /\ \E n, m \in 1..Len(heap) :
        /\ n # m
        /\ \E e \in 1..Len(heap[n].deps) : heap[n].deps[e].target = m
        /\ \E e \in 1..Len(heap[m].deps) : heap[m].deps[e].target = n

\* The head of the queue resolves to a node of the table that is done.
ResolvesToDone ==
    /\ status = "running"
    /\ queue # <<>>
    /\ LET c == parse_constraints(Head(queue).item)
       IN /\ c.ok
          /\ MarkerHolds(c)
          /\ parse_index(c.name).ok
          /\ Chosen(c).ok
          /\ TableNode(c) # 0
          /\ heap[TableNode(c)].done

\* The edge of the head of the queue
HeadEdge ==
    LET c == parse_constraints(Head(queue).item)
    IN [target |-> TableNode(c), constraints |-> SpecifierSetStr(c.specifiers),
        markers |-> c.markers]

\* Something was appended to the queue in this step.
Enqueued == queue # <<>> /\ Len(queue') >= Len(queue)

\* C4: no node's dependency list is fetched twice; a step whose requirement
\* resolves to a done node appends the edge to the parent and nothing else:
\* no fetch, nothing enqueued; and whatever a step enqueues are the children
\* of the one node it fetched for the first time.
C4_FetchedOnce ==
    /\ [](\A n \in 1..Len(fetched) : fetched[n] <= 1)
    /\ [][/\ ResolvesToDone =>
                /\ fetched' = fetched
                /\ queue' = Tail(queue)
                /\ nodes' = nodes
                /\ heap' = [heap EXCEPT ![Head(queue).parent[1]].deps =
                                Append(@, HeadEdge)]
          /\ Enqueued =>
                \E n \in 1..Len(fetched') :
                    /\ fetched'[n] = 1
                    /\ n <= Len(fetched) => fetched[n] = 0
                    /\ \A i \in Len(queue)..Len(queue') :
                            queue'[i].parent = Some(n)]_vars

\* A node fetched once has two incoming edges.
C4_DoneNodeRequiredAgain ==
    \E t \in 1..Len(heap) :
        /\ heap[t].done
        /\ fetched[t] = 1
        /\ \E p, q \in 1..Len(heap) :
            /\ p # q
            /\ \E e \in 1..Len(heap[p].deps) : heap[p].deps[e].target = t
            /\ \E e \in 1..Len(heap[q].deps) : heap[q].deps[e].target = t

\* The requirement is gated by the marker extra == "x" alone
GatedByX(c) ==
    /\ c.ok
    /\ c.markers # None
    /\ Strip(Tail(c.markers[1])) \in {"extra == 'x'", "extra == \"x\""}

\* Node n has an edge for the parsed requirement c
HasEdgeFor(n, c) ==
    \E e \in 1..Len(heap[n].deps) :
        /\ heap[n].deps[e].markers = c.markers
        /\ heap[heap[n].deps[e].target].name = c.name

\* C5: in the finished graph a dependency gated by extra == "x" is no edge
\* of a node without active extra when include_extras is false, and is an
\* edge of a node requested with extra x, or when include_extras is true.
C5_ExtraGatedEdge ==
    status = "returned" =>
        \A n \in 1..Len(heap) : \A d \in 1..Len(RawDeps(n)) :
            LET c == parse_constraints(RawDeps(n)[d])
            IN GatedByX(c) =>
                /\ (heap[n].dep_extras = None /\ ~include_extras)
                        => ~HasEdgeFor(n, c)
                /\ (heap[n].dep_extras = Some("x") \/ include_extras)
                        => HasEdgeFor(n, c)

\* The dependency list of node n can be had: it is pre-populated, or the
\* first wheel can be read, or there is no wheel and the first sdist can.
Fetchable(n) ==
    LET files == NodeRelease(n).files
        wheels == SelectSeq(files, LAMBDA fe : fe.file_type = BDIST_WHEEL)
        sdists == SelectSeq(files, LAMBDA fe : fe.file_type = SDIST)
    IN \/ NodeRelease(n).requires # None
       \/ /\ wheels # <<>>
          /\ (wheels[1].size = None \/ wheels[1].size[1] > BigWheel)
                => ~Artifacts[wheels[1].url].truncated
       \/ /\ wheels = <<>>
          /\ sdists # <<>>
          /\ read_metadata_sdist(sdists[1].url).ok

\* The requirement text can be taken through an iteration without failure:
\* it parses, its marker evaluates, and if the marker holds its package is
\* known and has a release for the runtime and the specifiers.
Resolvable(d) ==
    LET c == parse_constraints(d)
    IN /\ c.ok
       /\ c.markers # None =>
            _do_markers_match(c.markers[1], <<>>, python_version).ok
       /\ MarkerHolds(c) =>
            /\ \E p \in INDEX : p.name = c.name
            /\ Chosen(c).ok

\* C6: walk returns only when nothing failed: the starting requirement and
\* every node of the graph could be fetched, every dependency string parsed,
\* and every requirement that was due resolved; a walk that raised has its
\* exception and is not returned.
C6_NoPartialGraph ==
    /\ status = "returned" =>
        /\ error = None
        /\ root # None
        /\ Resolvable(starting_package)
        /\ \A n \in 1..Len(heap) :
            /\ Fetchable(n)
            /\ \A d \in 1..Len(RawDeps(n)) :
                /\ parse_constraints(RawDeps(n)[d]).ok
                /\ Included([extra |-> heap[n].dep_extras],
                            parse_constraints(RawDeps(n)[d]), include_extras)
                    => Resolvable(RawDeps(n)[d])
    /\ status = "raised" <=> error # None

\* A walk has raised for an unknown package below the root, after another
\* branch was walked.
C6_FailedBelowRoot ==
    /\ status = "raised"
    /\ error = Some([type |-> "NotImplementedError", what |-> "Unknown package"])
    /\ root # None
    /\ Len(heap) >= 2

-----------------------------------------------------------------------------
(* Properties of version selection                                         *)

\* The specifier set of the selection
SelSet == SpecifierSet(selSpec)

SelKeys == {selPackage.releases[i].version : i \in 1..Len(selPackage.releases)}

\* The requires_python texts are specifier sets
WellFormed ==
    \A i \in 1..Len(selPackage.releases) :
        \A j \in 1..Len(selPackage.releases[i].files) :
            LET rp == selPackage.releases[i].files[j].requires_python
            IN rp # None => SpecifierSet(rp[1]).ok

\* The release passes the requires-python filter: no file declares one, or
\* the runtime is in the one the first declaring file declares.
Passes(k) ==
    LET declaring == SelectSeq(ReleaseOf(selPackage, k).files,
                        LAMBDA fe : fe.requires_python \notin {None, Some("")})
        rp == SpecifierSet(declaring[1].requires_python[1])
    IN \/ declaring = <<>>
       \/ rp.ok /\ (rp.specs = {} \/ SetContains(rp.specs, selPython))

\* The release satisfies the specifiers: it is in the specifier set, which
\* every version is when there is no clause.
Satisfies(k) == SelSet.specs = {} \/ SetContains(SelSet.specs, k)

IsPre(k) == Version(k).pre

\* A candidate: without any clause a pre-release counts only when no final
\* release passes the filter.
Candidate(k) ==
    /\ Passes(k)
    /\ Satisfies(k)
    /\ (SelSet.specs = {} /\ IsPre(k))
            => \A j \in SelKeys : Passes(j) => IsPre(j)

\* C7, as stated: the version returned is a key, passes the filter,
\* satisfies the specifiers and no release that does so is greater.
C7_MaximumOfSatisfying ==
    \A i \in 1..Len(selCalls) :
        selCalls[i].ok =>
            /\ selCalls[i].v \in SelKeys
            /\ Passes(selCalls[i].v)
            /\ Satisfies(selCalls[i].v)
            /\ \A k \in SelKeys :
                (Passes(k) /\ Satisfies(k))
                    => ~VLess(Version(selCalls[i].v), Version(k))

\* C7, amended: the version returned is a key, passes the filter, satisfies
\* the specifiers and is the maximum of the candidates: of the releases that
\* do so, except that without any clause a pre-release is a candidate only
\* when no final release passes the filter.
C7_MaximumOfCandidates ==
    \A i \in 1..Len(selCalls) :
        selCalls[i].ok =>
            /\ selCalls[i].v \in SelKeys
            /\ Candidate(selCalls[i].v)
            /\ \A k \in SelKeys :
                Candidate(k) => ~VLess(Version(selCalls[i].v), Version(k))

\* Without specifiers the final release was returned though a greater
\* pre-release passes the filter.
C7_FinalBeforePreRelease ==
    /\ Len(selCalls) >= 1
    /\ selSpec = ""
    /\ selCalls[1].ok
    /\ ~IsPre(selCalls[1].v)
    /\ \E k \in SelKeys :
        IsPre(k) /\ Passes(k) /\ VLess(Version(selCalls[1].v), Version(k))

IncompatibleRuntime == Raise("ValueError", "incompatible with")
NoMatchingVersion == Raise("ValueError", "has no compatible release")

\* C8: with well-formed specifiers and requires_python texts, selection
\* raises IncompatibleRuntime exactly when no release passes the filter,
\* NoMatchingVersion exactly when some release passes and none of those
\* satisfies the specifiers, and returns a version otherwise; the two
\* failures differ.
C8_FailureExactlyWhen ==
    /\ IncompatibleRuntime # NoMatchingVersion
    /\ \A i \in 1..Len(selCalls) :
        (SelSet.ok /\ WellFormed) =>
            /\ selCalls[i] = IncompatibleRuntime
                    <=> ~\E k \in SelKeys : Passes(k)
            /\ selCalls[i] = NoMatchingVersion
                    <=> /\ \E k \in SelKeys : Passes(k)
                        /\ ~\E k \in SelKeys : Passes(k) /\ Satisfies(k)
            /\ selCalls[i].ok
                    <=> \E k \in SelKeys : Passes(k) /\ Satisfies(k)

\* NoMatchingVersion was raised for <1.0 over releases that all pass the
\* filter.
C8_NoneMatches ==
    /\ Len(selCalls) >= 1
    /\ selSpec = "<1.0"
    /\ SelKeys = {"1.0", "2.0"}
    /\ selCalls[1] = NoMatchingVersion

\* Some clause of the text starts with no operator of the seven.
UnknownOperator(text) ==
    \E i \in 1..Len(Split(text, ",")) :
        /\ Strip(Split(text, ",")[i]) # ""
        /\ OperatorOf(Strip(Split(text, ",")[i])) = ""

\* C9: a selection with a clause whose operator is not one of the seven
\* raises NotImplementedError, not NoMatchingVersion, and returns no version.
C9_UnsupportedOperator ==
    \A i \in 1..Len(selCalls) :
        UnknownOperator(selSpec) =>
            /\ ~selCalls[i].ok
            /\ selCalls[i].exc.type = "NotImplementedError"
            /\ selCalls[i] # NoMatchingVersion

\* C10: two selections with the same package, specifiers and runtime give
\* the same version or the same failure, in whatever order the specifier set
\* iterates and also when two keys denote one version; a selection changes
\* neither its inputs nor the walker.
C10_SelectionDeterministic ==
    /\ [](Len(selCalls) = 2 => selCalls[1] = selCalls[2])
    /\ [][UNCHANGED <<selPackage, selSpec, selPython, walkVars>>]_vars

\* Two selections were made under two clauses, over two keys that denote
\* one version, and returned one of them.
C10_EqualKeysTwice ==
    /\ Len(selCalls) = 2
    /\ SelSet.ok
    /\ Cardinality(SelSet.specs) = 2
    /\ selCalls[1].ok
    /\ \E k \in SelKeys :
        /\ k # selCalls[1].v
        /\ VEq(Version(k), Version(selCalls[1].v))

-----------------------------------------------------------------------------
(* Properties of SeekableHttpFile                                          *)

\* The position of an ordinary in-memory file of L bytes after the calls
RECURSIVE FilePos(_, _)
FilePos(L, calls) ==
    IF calls = <<>> THEN 0
    ELSE LET before == FilePos(L, SubSeq(calls, 1, Len(calls) - 1))
             c == calls[Len(calls)]
             to == IF c.b = 0 THEN c.a
                   ELSE IF c.b = 1 THEN before + c.a
                   ELSE L + c.a
         IN IF c.op = "seek"
            THEN (IF c.b \notin 0..2 THEN before ELSE IF to < 0 THEN 0 ELSE to)
            ELSE IF c.op = "read" /\ before < L
            THEN (IF c.a = -1 \/ before + c.a > L THEN L ELSE before + c.a)
            ELSE before

\* What call i gives on an ordinary in-memory file holding data
FileRet(data, calls, i) ==
    LET before == FilePos(Len(data), SubSeq(calls, 1, i - 1))
    IN IF calls[i].op = "tell" THEN Returns(before)
       ELSE IF calls[i].op = "read"
       THEN Returns(Slice(data, before,
                          IF calls[i].a = -1 THEN Len(data)
                          ELSE before + calls[i].a))
       ELSE Returns(None)

\* The calls keep the position inside [0, L] and no read runs past L
InRange(L, calls) ==
    \A i \in 1..Len(calls) :
        LET before == FilePos(L, SubSeq(calls, 1, i - 1))
            to == IF calls[i].b = 0 THEN calls[i].a
                  ELSE IF calls[i].b = 1 THEN before + calls[i].a
                  ELSE L + calls[i].a
        IN /\ calls[i].op = "seek" => calls[i].b \in 0..2 /\ to \in 0..L
           /\ calls[i].op = "read" =>
                calls[i].a = -1 \/ before + calls[i].a <= L

\* C11: for calls that keep the position inside [0, L] and read nothing
\* past L, every read and every tell of SeekableHttpFile gives what the same
\* call gives on an in-memory file holding the resource, from the cached
\* tail or by a range request; tell() is 0 at first, read(2) gives the first
\* 2 bytes, seek(-4, 2) then read(4) or read() gives the last 4 bytes, and
\* tell() is then L.
C11_SameAsFile ==
    http.phase = "open" =>
        /\ InRange(http.length, http.calls) =>
            \A i \in 1..Len(http.calls) :
                http.calls[i].op # "seek" =>
                    http.rets[i] = FileRet(http.resource, http.calls, i)
        /\ http.calls # <<>> =>
            /\ http.calls[1] = Call("tell", 0, 0) => http.rets[1] = Returns(0)
            /\ (http.calls[1] = Call("read", 2, 0) /\ http.length >= 2)
                    => http.rets[1] = Returns(<<1, 2>>)
        /\ \A i \in 2..Len(http.calls) :
            (/\ http.length >= 4
             /\ http.calls[i - 1] = Call("seek", -4, 2)
             /\ http.calls[i] \in {Call("read", 4, 0), Call("read", -1, 0)})
                => /\ http.rets[i] = Returns([j \in 1..4 |-> http.length - 4 + j])
                   /\ i = Len(http.calls) => http.pos = http.length
                   /\ (i < Len(http.calls) /\ http.calls[i + 1] = Call("tell", 0, 0))
                        => http.rets[i + 1] = Returns(http.length)

\* read(2) was answered by a range request, then seek(-4, 2) and read(4) by
\* the cached tail.
C11_RangeThenCache ==
    /\ http.phase = "open"
    /\ http.calls = <<Call("read", 2, 0), Call("seek", -4, 2), Call("read", 4, 0)>>
    /\ http.requests = 2
    /\ http.rets[3] = Returns(<<3, 4, 5, 6>>)

\* C12: a read(n), n > 0, that gives fewer than n bytes fails with the
\* "Truncated read" ValueError, from the cached tail as by a range request:
\* none returns short data; read(-1) that gives the bytes up to the end of
\* the resource does not fail.
C12_ShortReadFails ==
    http.phase = "open" =>
        \A i \in 1..Len(http.calls) :
            /\ (http.calls[i].op = "read" /\ http.calls[i].a > 0
                    /\ http.rets[i].ok)
                => Len(http.rets[i].val) = http.calls[i].a
            /\ (http.calls[i].op = "read" /\ http.calls[i].a = -1
                    /\ FilePos(http.length, SubSeq(http.calls, 1, i - 1))
                            \in 0..http.length
                    /\ InRange(http.length, SubSeq(http.calls, 1, i - 1)))
                => http.rets[i].ok

-----------------------------------------------------------------------------
(* Properties of convert_sdist_requires                                    *)

\* The lines of the text converted
InputLines == Split(call.arg, "\n")

IsBlank(l) == Strip(l) = ""
IsHeader(l) ==
    /\ ~IsBlank(l)
    /\ Ch(Strip(l), 1) = "["
    /\ Ch(Strip(l), Len(Strip(l))) = "]"

\* The lines that are requirements, by index, in input order
RequirementIndexes ==
    SelectSeq([i \in 1..Len(InputLines) |-> i],
              LAMBDA i : ~IsBlank(InputLines[i]) /\ ~IsHeader(InputLines[i]))

\* The most recent header before line i, 0 when there is none
RecentHeader(i) ==
    IF \E j \in 1..(i - 1) : IsHeader(InputLines[j])
    THEN CHOOSE j \in 1..(i - 1) :
            /\ IsHeader(InputLines[j])
            /\ \A k \in (j + 1)..(i - 1) : ~IsHeader(InputLines[k])
    ELSE 0

\* The marker a header stands for: [:m] is m, [e] is extra == 'e', [e:m] is
\* (m) and extra == 'e'
HeaderInner(l) == Sub(Strip(l), 2, Len(Strip(l)) - 1)
HeaderExtra(l) == Split(HeaderInner(l), ":")[1]
HeaderRest(l) ==
    Sub(HeaderInner(l), Len(HeaderExtra(l)) + 2, Len(HeaderInner(l)))
MarkerOfHeader(l) ==
    IF ~Contains(HeaderInner(l), ":") THEN "extra == " \o Repr(HeaderInner(l))
    ELSE IF HeaderExtra(l) = "" THEN HeaderRest(l)
    ELSE "(" \o HeaderRest(l) \o ") and extra == " \o Repr(HeaderExtra(l))

\* What line i is emitted as, as stated: the line itself before any header,
\* "<line>; <marker>" after one
EmittedAsStated(i) ==
    IF RecentHeader(i) = 0 THEN InputLines[i]
    ELSE InputLines[i] \o "; " \o MarkerOfHeader(InputLines[RecentHeader(i)])

\* What line i is emitted as: the line without its surrounding whitespace,
\* alone also after a header whose marker is empty
EmittedStripped(i) ==
    IF RecentHeader(i) = 0 \/ MarkerOfHeader(InputLines[RecentHeader(i)]) = ""
    THEN Strip(InputLines[i])
    ELSE Strip(InputLines[i]) \o "; "
            \o MarkerOfHeader(InputLines[RecentHeader(i)])

Converted == call.fn = "convert_sdist_requires" /\ call.done

\* C13, as stated: one output string per non-blank, non-header line, in
\* input order, the line unchanged before any header and "<line>; <marker>"
\* after one, by the most recent header only; no output is blank or a header.
C13_OneOutputPerLine ==
    Converted =>
        /\ Len(call.ret) = Len(RequirementIndexes)
        /\ \A k \in 1..Len(call.ret) :
            /\ call.ret[k] = EmittedAsStated(RequirementIndexes[k])
            /\ ~IsBlank(call.ret[k])
            /\ ~IsHeader(call.ret[k])

\* C13, amended: one output string per non-blank, non-header line, in input
\* order: the line stripped of surrounding whitespace, followed by
\* "; <marker>" of the most recent header when there is one and its marker
\* is not empty; no output is blank or a header.
C13_OneStrippedOutputPerLine ==
    Converted =>
        /\ Len(call.ret) = Len(RequirementIndexes)
        /\ \A k \in 1..Len(call.ret) :
            /\ call.ret[k] = EmittedStripped(RequirementIndexes[k])
            /\ ~IsBlank(call.ret[k])
            /\ ~IsHeader(call.ret[k])
        /\ call.arg = "[:v < '3']\na\n" => call.ret = <<"a; v < '3'">>
        /\ call.arg = "a\n" => call.ret = <<"a">>

\* A text with two headers and a line after each was converted: the second
\* line carries the second header's marker only.
C13_TwoHeaders ==
    /\ Converted
    /\ call.arg = "[x]\na\n[x:v < '3']\n"
        \/ call.arg = "[x]\n[x:v < '3']\na\n"
    /\ call.ret = <<"a; (v < '3') and extra == 'x'">>

-----------------------------------------------------------------------------
(* Properties of parse_constraints                                         *)

\* A line of the form name (op ver[, op ver]*); marker was parsed
ParsedWritten ==
    /\ call.fn = "parse_constraints"
    /\ call.done
    /\ call.arg.name # None

\* C14: for a line written as name, clauses and marker with whitespace
\* around the tokens, parse_constraints returns the name, a specifier set
\* that renders the clauses as written, in the order written, and the
\* marker text as written from its ';' on, None when there is none.
C14_RendersAsWritten ==
    ParsedWritten =>
        /\ call.ret.ok
        /\ call.ret.name = call.arg.name[1]
        /\ SpecifierSetStr(call.ret.specifiers) = Join(call.arg.clauses, ",")
        /\ call.ret.markers = call.arg.marker

-----------------------------------------------------------------------------
(* Properties of _fetch_single_deps                                        *)

\* _fetch_single_deps has returned or raised
Fetched == call.fn = "_fetch_single_deps" /\ call.done

\* The release the dependencies were asked of
FetchedRelease == call.arg.releases[1]

\* The positions of the files of a type in the release's file list
FilesOfType(file_type) ==
    {i \in 1..Len(FetchedRelease.files) :
        FetchedRelease.files[i].file_type = file_type}

\* The earliest of a non-empty set of positions
Earliest(S) == CHOOSE i \in S : \A j \in S : i <= j

\* The call took exactly one access of the kind, to the file at position i
OnlyAccess(kind, i) ==
    call.ret.io = <<[kind |-> kind, url |-> FetchedRelease.files[i].url]>>

\* C15: a release with a pre-populated dependency list, the empty list
\* included, gives that list unchanged and takes no cache fetch, range
\* request or archive read, whatever its files, none at all included.
C15_PresetReturnedUnchanged ==
    (Fetched /\ FetchedRelease.requires # None) =>
        /\ call.ret.ok
        /\ call.ret.deps = FetchedRelease.requires[1]
        /\ call.ret.io = <<>>

\* The empty pre-populated list of a release without files was returned
C15_PresetWithoutFiles ==
    /\ Fetched
    /\ FetchedRelease.requires = Some(<<>>)
    /\ FetchedRelease.files = <<>>
    /\ call.ret.ok

\* C16: without a pre-populated list the first wheel of the file list alone
\* decides: a range read when its size is unknown or above 20,000,000,
\* else one fetch through the cache, and nothing else is accessed; without
\* a wheel the first sdist is fetched through the cache; without either
\* the call fails with ValueError "No whl/sdist" and accesses nothing.  A
\* wheel that declares no dependencies gives the empty sequence.
C16_SourceRule ==
    (Fetched /\ FetchedRelease.requires = None) =>
        IF FilesOfType(BDIST_WHEEL) # {}
        THEN LET i == Earliest(FilesOfType(BDIST_WHEEL))
                 size == FetchedRelease.files[i].size
                 held == Artifacts[FetchedRelease.files[i].url].requires_dist
             IN /\ OnlyAccess(IF size = None \/ size[1] > 20000000
                              THEN "range" ELSE "cache", i)
                /\ call.ret.ok =>
                    call.ret.deps = IF held = None THEN <<>> ELSE held[1]
        ELSE IF FilesOfType(SDIST) # {}
        THEN OnlyAccess("cache", Earliest(FilesOfType(SDIST)))
        ELSE /\ ~call.ret.ok
             /\ call.ret.exc = [type |-> "ValueError", what |-> "No whl/sdist"]
             /\ call.ret.io = <<>>

\* A wheel of exactly 20,000,000 bytes listed after an sdist was fetched
\* through the cache
C16_ThresholdWheelAfterSdist ==
    /\ Fetched
    /\ FetchedRelease.requires = None
    /\ Len(FetchedRelease.files) = 2
    /\ FetchedRelease.files[1].file_type = SDIST
    /\ FetchedRelease.files[2].file_type = BDIST_WHEEL
    /\ FetchedRelease.files[2].size = Some(20000000)
    /\ call.ret.ok
    /\ OnlyAccess("cache", 2)

-----------------------------------------------------------------------------
(* Properties of done and of the steps of walk()                           *)

\* C17: no edge is appended to the deps of a node after the node is marked
\* done: a step leaves the deps of every node that is done as they were.
C17_NoEdgeAfterDone ==
    [][\A n \in 1..Len(heap) :
            heap[n].done => heap'[n].deps = heap[n].deps]_vars

\* Node n has a requirement waiting in the queue
Awaited(n) == \E i \in 1..Len(queue) : queue[i].parent = Some(n)

\* C18: between two iterations of walk() a node that is done has no
\* requirement waiting in the queue with the node as its parent.
C18_DoneMeansComplete ==
    status = "running" => \A n \in 1..Len(heap) : heap[n].done => ~Awaited(n)

\* The requirement at the head of the queue carries a marker that evaluates
\* false against the environment with no active extras
HeadMarkerFalse ==
    /\ status = "running"
    /\ queue # <<>>
    /\ LET c == parse_constraints(Head(queue).item)
       IN /\ c.ok
          /\ c.markers # None
          /\ LET m == _do_markers_match(c.markers[1], <<>>, python_version)
             IN m.ok /\ ~m.val

\* C19: the step on a requirement whose marker evaluates false takes the
\* head off the queue and changes nothing else: no index lookup, no node,
\* no edge, no root, no fetch, and the walk goes on, also when the package
\* required does not exist.
C19_FalseMarkerSkips ==
    [][HeadMarkerFalse =>
            /\ queue' = Tail(queue)
            /\ UNCHANGED <<heap, nodes, root, lookups, fetched, status, error>>]_vars

\* The walk of k on Python 3.6.0 returned: k requires the missing package
\* nope and b under false markers, and c under a true one
C19_MissingPackageSkipped ==
    /\ starting_package = "k"
    /\ python_version = "3.6.0"
    /\ status = "returned"
    /\ lookups = 2
    /\ Len(heap) = 2
    /\ heap[1].name = "k"
    /\ Len(heap[1].deps) = 1
    /\ heap[heap[1].deps[1].target].name = "c"

\* The names a parsed marker compares the variable extra with
RECURSIVE ExtrasNamed(_)
ExtrasNamed(list) ==
    IF list = <<>> THEN {}
    ELSE ExtrasNamed(Tail(list)) \cup
         (IF Head(list).k = "group" THEN ExtrasNamed(Head(list).items)
          ELSE IF Head(list).k # "item" THEN {}
          ELSE IF Head(list).lhs.var /\ Head(list).lhs.text = "extra"
          THEN {Head(list).rhs.text}
          ELSE IF Head(list).rhs.var /\ Head(list).rhs.text = "extra"
          THEN {Head(list).lhs.text}
          ELSE {})

\* The inclusion rule as stated, for a node with active extra e and the
\* dependency string d
ShouldEnqueue(e, d) ==
    LET c == parse_constraints(d)
        m == Marker(Tail(c.markers[1]))
    IN \/ c.markers = None
       \/ ~m.ok
       \/ ExtrasNamed(m.list) = {}
       \/ e # None /\ e[1] \in ExtrasNamed(m.list)
       \/ include_extras

\* The requirements node n is to wait for, in the order of its release's
\* dependency strings
RECURSIVE Awaiting(_, _)
Awaiting(n, deps) ==
    IF deps = <<>> THEN <<>>
    ELSE (IF ShouldEnqueue(heap'[n].dep_extras, Head(deps))
          THEN <<[parent |-> Some(n), item |-> Head(deps)]>> ELSE <<>>)
         \o Awaiting(n, Tail(deps))

\* The step fetched the dependency strings of node n and enqueued from them
Expanded(n) ==
    /\ status' = "running"
    /\ n \in 1..Len(fetched')
    /\ fetched'[n] = 1
    /\ n <= Len(fetched) => fetched[n] = 0

\* C20: the step that expands a node with active extra e enqueues a
\* dependency string if and only if it has no marker, or its marker does
\* not compare the variable extra, or e is set and the marker compares
\* extra with e, or include_extras is true; so from a node with extra
\* "test" a dependency gated by extra == "testing" is not enqueued.
C20_EnqueuedIffReferenced ==
    [][\A n \in 1..Len(fetched') :
            Expanded(n) =>
                queue' = Tail(queue) \o
                    Awaiting(n, _fetch_single_deps(
                                    CHOOSE p \in INDEX : p.name = heap'[n].name,
                                    heap'[n].version).deps)]_vars

-----------------------------------------------------------------------------
(* Properties of _do_markers_match                                         *)

\* _do_markers_match has returned or raised
Matched == call.fn = "_do_markers_match" /\ call.done

\* x is one of the extras given to the call
InExtras(x) == \E i \in 1..Len(call.arg.extras) : call.arg.extras[i] = x

\* C21: for the marker extra == "foo", _do_markers_match(marker, extras)
\* returns true if and only if "foo" is one of extras; with no extras it
\* returns false.
C21_ExtraIsAnyOfExtras ==
    (Matched /\ call.arg.markers = "; extra == \"foo\"") =>
        /\ call.ret.ok
        /\ call.ret.val = InExtras("foo")

-----------------------------------------------------------------------------
(* Properties of the node table                                            *)

\* The nodes the edges of the nodes of S lead to
Targets(S) ==
    UNION {{heap[n].deps[e].target : e \in 1..Len(heap[n].deps)} : n \in S}

\* The nodes reachable from those of S along deps edges, S included
RECURSIVE ReachableFrom(_)
ReachableFrom(S) ==
    IF Targets(S) \subseteq S THEN S ELSE ReachableFrom(S \cup Targets(S))

\* C22: in every state of a walk every node of the table is the root or
\* can be reached from the root along deps edges.
C22_ReachableFromRoot ==
    /\ root = None => heap = <<>>
    /\ root # None =>
        \A k \in DOMAIN nodes : nodes[k] \in ReachableFrom({root[1]})

\* The walk returned a graph with a node that no edge of the root leads to
C22_BelowAChild ==
    /\ status = "returned"
    /\ \E k \in DOMAIN nodes :
        /\ nodes[k] # root[1]
        /\ nodes[k] \notin Targets({root[1]})

\* The fields of node n that are given at its creation are as they were
Kept(n) ==
    /\ heap'[n].name = heap[n].name
    /\ heap'[n].version = heap[n].version
    /\ heap'[n].dep_extras = heap[n].dep_extras
    /\ heap'[n].has_sdist = heap[n].has_sdist
    /\ heap'[n].has_bdist = heap[n].has_bdist

\* Some file of the release of node n, as created by the step, has the type
HasFileOfType(n, file_type) ==
    LET release == ReleaseOf(CHOOSE p \in INDEX : p.name = heap'[n].name,
                             heap'[n].version)
    IN \E i \in 1..Len(release.files) : release.files[i].file_type = file_type

\* Node n is created by the step for the requirement at the head of the
\* queue, with the flags of the files of the release chosen for it
CreatedForHead(n) ==
    LET c == parse_constraints(Head(queue).item)
    IN /\ queue # <<>>
       /\ c.ok
       /\ heap'[n].name = c.name
       /\ heap'[n].version = Chosen(c).v
       /\ heap'[n].dep_extras = c.extra
       /\ heap'[n].has_sdist = HasFileOfType(n, SDIST)
       /\ heap'[n].has_bdist = HasFileOfType(n, BDIST_WHEEL)
       /\ nodes'[<<c.name, Chosen(c).v, c.extra>>] = n

\* C23: a step creates at most one node, with the name, version and extra
\* of the requirement it resolved and has_sdist / has_bdist telling whether
\* some file of the chosen release is an sdist / a wheel; no step changes
\* these fields of a node that exists, removes a node or maps a key of the
\* table to another node.
C23_NodeFieldsFixed ==
    [][/\ Len(heap) <= Len(heap')
       /\ Len(heap') <= Len(heap) + 1
       /\ \A n \in 1..Len(heap) : Kept(n)
       /\ \A k \in DOMAIN nodes : k \in DOMAIN nodes' /\ nodes'[k] = nodes[k]
       /\ \A n \in (Len(heap) + 1)..Len(heap') : CreatedForHead(n)]_vars

\* Node n stands for the package and has the two flags
Flagged(n, name, has_sdist, has_bdist) ==
    /\ heap[n].name = name
    /\ heap[n].has_sdist = has_sdist
    /\ heap[n].has_bdist = has_bdist

\* In the walk of x the sdist-only t was resolved twice, and s (sdist and
\* wheel) and z (neither) once
C23_ResolvedTwice ==
    /\ starting_package = "x"
    /\ \E t, s, z \in 1..Len(heap) :
        /\ Flagged(t, "t", TRUE, FALSE)
        /\ Flagged(s, "s", TRUE, TRUE)
        /\ Flagged(z, "z", FALSE, FALSE)
        /\ Cardinality({e \in 1..Len(heap[1].deps) :
                            heap[1].deps[e].target = t}) = 2

-----------------------------------------------------------------------------
(* Properties of version selection: pre-releases and requires-python       *)

\* Some clause of the specifier set has a pre-release as its operand
NamesPreRelease == \E sp \in SelSet.specs : sp.v.pre

\* C24: under specifiers without a pre-release operand, none at all
\* included, selection returns no pre-release, and when the releases that
\* pass the runtime filter and satisfy the specifiers are all pre-releases
\* it fails with NoMatchingVersion.
C24_NoUnrequestedPreRelease ==
    \A i \in 1..Len(selCalls) :
        (SelSet.ok /\ WellFormed /\ ~NamesPreRelease) =>
            /\ selCalls[i].ok => ~IsPre(selCalls[i].v)
            /\ (/\ \E k \in SelKeys : Passes(k)
                /\ \A k \in SelKeys : (Passes(k) /\ Satisfies(k)) => IsPre(k))
                    => selCalls[i] = NoMatchingVersion

\* The first file of the release k that declares a requires-python, 0 when
\* none does
FirstDeclaring(k) ==
    LET files == ReleaseOf(selPackage, k).files
        declaring == {i \in 1..Len(files) : files[i].requires_python # None}
    IN IF declaring = {} THEN 0
       ELSE CHOOSE i \in declaring : \A j \in declaring : i <= j

\* The release k is a candidate as stated: no file declares, or the
\* runtime satisfies what the first declaring file declares
IsCandidate(k) ==
    \/ FirstDeclaring(k) = 0
    \/ LET rp == SpecifierSet(ReleaseOf(selPackage, k)
                                .files[FirstDeclaring(k)].requires_python[1])
       IN rp.ok /\ (rp.specs = {} \/ SetContains(rp.specs, selPython))

\* C25: the candidates of a selection are the releases none of whose files
\* declares requires-python or whose first declaring file is satisfied by
\* the runtime, whatever later files declare.  Seen without specifiers:
\* selection fails with IncompatibleRuntime exactly when no release is a
\* candidate, and otherwise returns the greatest candidate, a pre-release
\* only when every candidate is one.
C25_FirstDeclaringFileDecides ==
    \A i \in 1..Len(selCalls) :
        (selSpec = "" /\ WellFormed) =>
            /\ selCalls[i] = IncompatibleRuntime
                    <=> ~\E k \in SelKeys : IsCandidate(k)
            /\ selCalls[i].ok <=> \E k \in SelKeys : IsCandidate(k)
            /\ selCalls[i].ok =>
                /\ selCalls[i].v \in SelKeys
                /\ IsCandidate(selCalls[i].v)
                /\ \A k \in SelKeys :
                    (/\ IsCandidate(k)
                     /\ IsPre(k) => \A j \in SelKeys : IsCandidate(j) => IsPre(j))
                        => ~VLess(Version(selCalls[i].v), Version(k))

\* A release was selected whose first declaring file the runtime satisfies
\* and whose later file it does not
C25_LaterFileContradicts ==
    /\ Len(selCalls) >= 1
    /\ selSpec = ""
    /\ selPython = "2.0"
    /\ selCalls[1].ok
    /\ LET files == ReleaseOf(selPackage, selCalls[1].v).files
       IN /\ Len(files) = 3
          /\ files[1].requires_python = None
          /\ files[2].requires_python = Some(">=2.0")
          /\ files[3].requires_python = Some("<2.0")

-----------------------------------------------------------------------------
(* Properties of the requests and the cache of SeekableHttpFile            *)

\* The call the step makes, and the size its read is for
StepCall == http'.calls[Len(http'.calls)]
StepSize == IF StepCall.a = -1 THEN http.length - http.pos ELSE StepCall.a

\* The bytes [pos, pos + n) of the step's read lie in the cached tail
InsideCache ==
    /\ http.end_cache_start <= http.pos
    /\ http.pos + StepSize <= http.length

\* The step is a read for more than no bytes that the cached tail does not
\* hold entirely
ReadsOutsideCache == StepCall.op = "read" /\ StepSize > 0 /\ ~InsideCache

\* C26: construction makes one request; a read of n > 0 bytes that lie
\* entirely in the cached tail makes none, every other read of n > 0 bytes
\* makes exactly one, for the bytes pos .. pos + n - 1; seek, tell and a
\* read of no bytes (read(0), read(-1) at the end) make none, and a read of
\* no bytes returns b"" and leaves the position.
C26_RequestsPerCall ==
    /\ [](Len(http.calls) = 0 => http.requests = 1)
    /\ [][/\ http'.requests = http.requests
                                + (IF ReadsOutsideCache THEN 1 ELSE 0)
          /\ ReadsOutsideCache =>
                http'.asked = Append(http.asked,
                                <<http.pos, http.pos + StepSize - 1>>)
          /\ ~ReadsOutsideCache => http'.asked = http.asked
          /\ (StepCall.op = "read" /\ StepSize = 0) =>
                /\ http'.rets[Len(http'.rets)] = Returns(<<>>)
                /\ http'.pos = http.pos]_vars

\* C27: no call changes length, end_cache_start or the cached tail, and
\* the cached tail is the bytes [end_cache_start, length) of the resource.
C27_CacheFixed ==
    /\ [](/\ http.length = Len(http.resource)
          /\ http.end_cache_start \in 0..http.length
          /\ http.end_cache =
                [i \in 1..(http.length - http.end_cache_start) |->
                    http.resource[http.end_cache_start + i]])
    /\ [][/\ http'.length = http.length
          /\ http'.end_cache_start = http.end_cache_start
          /\ http'.end_cache = http.end_cache]_vars

\* Two range requests were answered for the bytes before the tail, and a
\* third read was served by the tail as cached at construction
C27_CacheAfterRangeReads ==
    /\ Len(http.resource) = 6
    /\ http.asked = <<<<0, 0>>, <<1, 1>>>>
    /\ http.requests = 3
    /\ Len(http.calls) = 3
    /\ http.calls[3].op = "read"
    /\ http.rets[3] = Returns(<<3, 4, 5, 6>>)

-----------------------------------------------------------------------------
(* Properties of the order of the walk                                     *)

\* The number of edges on a shortest path from the nodes of S, which are d
\* edges from the root, to node n; more than there are nodes when there is
\* no path
RECURSIVE DistanceFrom(_, _, _)
DistanceFrom(S, d, n) ==
    IF n \in S THEN d
    ELSE IF Targets(S) \subseteq S THEN Len(heap) + 1
    ELSE DistanceFrom(S \cup Targets(S), d + 1, n)

\* The distance of node n from the root
Distance(n) == DistanceFrom({root[1]}, 0, n)

\* The step, on a queue that is not empty, fetched the dependency strings of
\* exactly the nodes of this set
FetchedInStep ==
    {n \in 1..Len(fetched') :
        fetched'[n] = 1 /\ (n <= Len(fetched) => fetched[n] = 0)}

\* C28: each step takes the head of the queue and leaves the rest in its
\* order, whatever it enqueues goes to the end and has as parent the one
\* node whose dependencies the step fetched; so the nodes, in the order of
\* their creation, which is that of their first expansion, are at
\* non-decreasing distance from the root.
C28_BreadthFirst ==
    /\ [][queue # <<>> =>
            /\ Len(queue') >= Len(queue) - 1
            /\ SubSeq(queue', 1, Len(queue) - 1) = Tail(queue)
            /\ \A i \in Len(queue)..Len(queue') :
                /\ queue'[i].parent # None
                /\ FetchedInStep = {queue'[i].parent[1]}]_vars
    /\ [](\A m, n \in 1..Len(heap) : m < n => Distance(m) <= Distance(n))

\* The walk of i returned five nodes on three levels: i, then b/1.0 and j,
\* then c and b/2.0
C28_ThreeLevels ==
    /\ starting_package = "i"
    /\ status = "returned"
    /\ Len(heap) = 5
    /\ [n \in 1..5 |-> Distance(n)] = <<0, 1, 1, 2, 2>>

\* The nodes of the package b, by version
NodesOfB(version) ==
    {n \in 1..Len(heap) : heap[n].name = "b" /\ heap[n].version = version}

\* Node p has an edge to node n under the constraint text
EdgeUnder(p, n, constraints) ==
    \E e \in 1..Len(heap[p].deps) :
        /\ heap[p].deps[e].target = n
        /\ heap[p].deps[e].constraints = constraints

\* C29: the index in which i requires "b (==1.0)" and j, and j requires
\* "b (>=2.0)": the graph walk returns for i has a node b/1.0 and a node
\* b/2.0, with the same extra, the first under i and the second under j,
\* and the dependencies of each were fetched once.
C29_OneNodePerVersion ==
    (starting_package = "i" /\ status = "returned") =>
        \E m \in NodesOfB("1.0"), n \in NodesOfB("2.0") :
            /\ heap[m].dep_extras = heap[n].dep_extras
            /\ heap[m].done /\ heap[n].done
            /\ fetched[m] = 1 /\ fetched[n] = 1
            /\ \E p, q \in 1..Len(heap) :
                /\ heap[p].name = "i" /\ EdgeUnder(p, m, "==1.0")
                /\ heap[q].name = "j" /\ EdgeUnder(q, n, ">=2.0")

\* A walk returned a graph with two nodes of one name and extra and two
\* versions
C29_TwoVersionsInGraph ==
    /\ status = "returned"
    /\ \E m, n \in 1..Len(heap) :
        /\ heap[m].name = heap[n].name
        /\ heap[m].dep_extras = heap[n].dep_extras
        /\ heap[m].version # heap[n].version

-----------------------------------------------------------------------------
(* MalformedRequirement                                                    *)

\* parse_constraints has returned or raised
ParseEnded == call.fn = "parse_constraints" /\ call.done

\* The error of a line in which no name can be matched
MalformedRequirement == Raise("ValueError", "No operator match")

\* The line, stripped, starts with a word character, a dot or a hyphen
StartsWithName(line) ==
    /\ Strip(line) # ""
    /\ IsNameChar(Ch(Strip(line), 1))

\* The line, stripped, has no line break inside
OneLine(line) == ~Contains(Strip(line), "\n")

\* The position of the first of the strings that parse_constraints fails
\* on, 0 when it fails on none
FirstUnparsed(deps) ==
    LET bad == {i \in 1..Len(deps) : ~parse_constraints(deps[i]).ok}
    IN IF bad = {} THEN 0 ELSE CHOOSE i \in bad : \A j \in bad : i <= j

\* The dependency strings of node n were fetched and the first of them
\* that does not parse is malformed
MalformedBelow(n) ==
    LET deps == _fetch_single_deps(NodePackage(n), heap[n].version)
    IN /\ fetched[n] >= 1
       /\ deps.ok
       /\ FirstUnparsed(deps.deps) # 0
       /\ parse_constraints(deps.deps[FirstUnparsed(deps.deps)])
            = MalformedRequirement

\* A walk in which the enqueueing of a node's dependency strings met a
\* malformed one has raised MalformedRequirement and the node is not done
AbortsBeforeDone ==
    \A n \in 1..Len(heap) :
        MalformedBelow(n) =>
            /\ status = "raised"
            /\ error = Some(MalformedRequirement.exc)
            /\ ~heap[n].done

\* C30: parse_constraints fails with MalformedRequirement exactly when the
\* line, stripped, does not start with a name character, the empty line
\* included: every text that does not start with one fails so, and a text
\* that is one line fails so only then.  Raised while a node's dependency
\* strings are enqueued, it ends the walk with the node not done.
C30_MalformedExactlyWithoutName ==
    /\ ParseEnded =>
        /\ ~StartsWithName(call.arg.text) => call.ret = MalformedRequirement
        /\ (OneLine(call.arg.text) /\ call.ret = MalformedRequirement)
                => ~StartsWithName(call.arg.text)
    /\ AbortsBeforeDone

\* The walk of o raised on "(bad)", the second dependency string of o,
\* after enqueueing the first and before o was done
C30_WalkAbortsInEnqueue ==
    /\ starting_package = "o"
    /\ status = "raised"
    /\ error = Some(MalformedRequirement.exc)
    /\ Len(heap) = 1
    /\ ~heap[1].done
    /\ fetched[1] = 1
    /\ queue = <<[parent |-> Some(1), item |-> "c"]>>

-----------------------------------------------------------------------------
(* Properties of the walker between iterations and across calls of walk()  *)

\* C31: between two iterations of walk() that has not failed, and once it
\* has returned, every node of the table is done; a step that does not
\* fail creates at most one node and leaves it done, and done is never
\* taken back.
C31_AllDoneBetweenIterations ==
    /\ [](status \in {"running", "returned"} =>
            \A n \in 1..Len(heap) : heap[n].done)
    /\ [][/\ Len(heap') \in {Len(heap), Len(heap) + 1}
          /\ \A n \in 1..Len(heap) : heap[n].done => heap'[n].done
          /\ (Len(heap') = Len(heap) + 1 /\ status' = "running") =>
                /\ heap'[Len(heap')].done
                /\ fetched'[Len(heap')] = 1]_vars

\* The walk of d is between two iterations with the nodes d, b and e
\* created and requirements still waiting
C31_ThreeNodesMidWalk ==
    /\ starting_package = "d"
    /\ status = "running"
    /\ Len(heap) = 3
    /\ queue # <<>>
    /\ \A n \in 1..3 : heap[n].done /\ fetched[n] = 1

\* C32: when the queue of a walk has drained without a failure the root is
\* set, so the assertion at the end of walk() holds, whatever starting
\* requirement was parsed.
C32_RootSetWhenQueueDrains ==
    (status = "running" /\ queue = <<>>) => root # None

\* Queue entry i is the one __init__ puts in the queue: the starting
\* requirement without a parent, alone in the queue of a walker that has
\* done nothing yet
SeedEntry(i) ==
    /\ i = 1
    /\ Len(queue) = 1
    /\ queue[1].item = starting_package
    /\ heap = <<>>
    /\ root = None
    /\ lookups = 0

\* C33: a queue entry without a parent is the seed entry, every other
\* entry has as parent a node of the table; the root, once assigned, is
\* never assigned again; and a call of walk() on a walker whose walk has
\* returned makes no lookup and no fetch, changes no node, table or queue,
\* and returns, with the same root.
C33_OneSeedOneRoot ==
    /\ [](\A i \in 1..Len(queue) :
            IF queue[i].parent = None THEN SeedEntry(i)
            ELSE \E k \in DOMAIN nodes : nodes[k] = queue[i].parent[1])
    /\ [][root # None => root' = root]_vars
    /\ [][(status = "returned" \/ walks > 1) =>
            /\ UNCHANGED <<heap, nodes, queue, root, lookups, fetched, error>>
            /\ status' \in {"running", "returned"}]_vars
    /\ [](walks > 1 => queue = <<>> /\ root # None)

\* walk() was called a second time on the walker of d and has returned
\* the root of a graph of several nodes
C33_SecondWalkReturned ==
    /\ starting_package = "d"
    /\ walks = 2
    /\ status = "returned"
    /\ root = Some(1)
    /\ Len(heap) = 4
    /\ lookups = 7

-----------------------------------------------------------------------------
(* Properties of the position of a SeekableHttpFile                        *)

\* C34: after any calls of seek and read the position, which tell()
\* reports, is within the resource: 0 <= pos <= length.
C34_PositionWithinResource ==
    http.phase = "open" =>
        /\ 0 <= http.pos
        /\ http.pos <= http.length
        /\ \A i \in 1..Len(http.calls) :
            http.calls[i].op = "tell" =>
                (0 <= http.rets[i].val /\ http.rets[i].val <= http.length)

\* The step's call was answered by an exception of the given type
StepRaised(type) ==
    /\ ~http'.rets[Len(http'.rets)].ok
    /\ http'.rets[Len(http'.rets)].exc.type = type

\* The step is seek(pos, whence) with a whence that is not 0, 1 or 2
SeeksInvalidWhence == StepCall.op = "seek" /\ StepCall.b \notin {0, 1, 2}

====
